---- MODULE Spec2Model ----
(***************************************************************************)
(* A model of the per-vBucket storage and replication core of kv_engine:   *)
(* the VBucket coordinator (engines/ep/src/vbucket.cc), its hash table,    *)
(* its checkpoint log and its durability monitor.                          *)
(*                                                                         *)
(* The coordinator is translated from vbucket.cc.  The durability monitor, *)
(* the checkpoint manager, the hash table and the EPVBucket overrides      *)
(* (commitStoredValue, abortStoredValue, updateStoredValue, ...) are not   *)
(* part of the sources at hand: they are modelled from the specification   *)
(* and from what durability_monitor_test.cc expects of them.               *)
(***************************************************************************)
EXTENDS Integers, Sequences, FiniteSets, TLC

(***************************************************************************)
(* Bounds of the model.                                                    *)
(***************************************************************************)
\* cap on the seqnos the checkpoint manager hands out
MaxSeqno == 4
MaxSeqnoFence == 6
\* cap on the steady clock
MaxTime == 2
\* largest explicit sync-write timeout a client asks for
MaxTimeout == 2

(***************************************************************************)
(* Values.                                                                 *)
(***************************************************************************)
Keys == {"k1", "k2"}
FenceKeys == {"k1", "k2", "k3"}
Active == "A"
Replicas == {"B", "C"}
\* a node name that is in no chain
Unknown == "X"
\* an undefined (null) slot of a chain
Null == "null"
Nodes == {Active} \cup Replicas
\* the front-end threads, and the key each one writes
Threads == {"t1", "t2"}
KeyOf == [t \in Threads |-> IF t = "t1" THEN "k1" ELSE "k2"]

Levels == {"Majority", "MajorityAndPersistOnMaster", "PersistToMajority"}
\* cb::durability::Timeout: an explicit number of milliseconds, or Infinity
Infinity == [kind |-> "Infinity", ms |-> 0]
Timeouts == {[kind |-> "Ms", ms |-> t] : t \in 1..MaxTimeout} \cup {Infinity}
\* no durability requirements: a normal mutation
\* cb::durability::Timeout(): the bucket default, not yet resolved
BucketDefault == [kind |-> "BucketDefault", ms |-> 0]
NoDur == [level |-> "None", timeout |-> Infinity]
Requirements == [level : Levels, timeout : Timeouts]
\* a null cookie
NoCookie == 0

\* a thread that is not inside a call
Idle == [pc |-> "idle", item |-> <<>>, cookie |-> NoCookie]

\* no StoredValue (a null pointer)
NoSV == [bySeqno |-> 0, committed |-> "Absent", deleted |-> FALSE]
\* an empty hash-table slot pair of one key
NoEntry == [c |-> NoSV, p |-> NoSV]

\* the replication topologies a vBucket is constructed with
Topologies ==
    { << <<"A", "B">> >>,
      << <<"A", "B", "C">> >>,
      << <<"A", "B">>, <<"A", "C">> >>,
      << <<"A", Null>> >>,
      << <<"A", "B">>, <<"A", Null, Null>> >> }

VARIABLES
    state,             \* VBucket::state
    topology,          \* VBucket::replicationTopology, as set in the monitor
    ht,                \* VBucket::ht: key -> committed and pending StoredValue
    ckpt,              \* the items queued into the CheckpointManager, in order
    tracked,           \* DurabilityMonitor trackedWrites
    pos,               \* ActiveDM: replica -> (lastWriteSeqno, lastAckSeqno)
    hps,               \* DurabilityMonitor high prepared seqno
    persistenceSeqno,  \* VBucket::persistenceSeqno
    now,               \* std::chrono::steady_clock
    notified,          \* the syncWriteCompleteCb calls made, in order
    result,            \* what the last call returned
    threads,           \* front-end threads inside VBucket::set: where each is
    dmQueueMutex,      \* VBucket::dmQueueMutex: "free", or the thread holding it
    lastCall,          \* history: the last call made, where a log is kept
    request,           \* the value the caller is about to hand to the vBucket
    store,             \* the hash table with revisions and temporary values
    replica,           \* a replica vBucket and what a rollback resets
    hp,                \* the high-priority waiters and the flush timeout
    manifest,          \* the collections manifests: the bucket's and the vBuckets'
    hbl,               \* a hash-bucket lock: the value and the write under it, its holder
    pendingOps         \* VBucket::pendingOps under pendingOpLock, and the threads on them

\* the variables of the parts added to the vBucket proper
ext == <<request, store, replica, hp, manifest, hbl, pendingOps>>

vars == <<state, topology, ht, ckpt, tracked, pos, hps, persistenceSeqno,
          now, notified, result, threads, dmQueueMutex, lastCall, ext>>

\* no request: the caller hands over nothing
NoRequest == [t |-> "none", s |-> "", a |-> <<>>]
\* the parts a specification does not exercise stay as constructed
ExtInitExcept(part) ==
    /\ IF part = "request" THEN TRUE ELSE request = NoRequest
    /\ IF part = "store" THEN TRUE ELSE store = <<>>
    /\ IF part = "replica" THEN TRUE ELSE replica = <<>>
    /\ IF part = "hp" THEN TRUE ELSE hp = <<>>
    /\ IF part = "manifest" THEN TRUE ELSE manifest = <<>>
    /\ IF part = "hbl" THEN TRUE ELSE hbl = <<>>
    /\ IF part = "pendingOps" THEN TRUE ELSE pendingOps = <<>>
ExtInit == ExtInitExcept("")

\* the variables of the vBucket proper
core == <<state, topology, ht, ckpt, tracked, pos, hps, persistenceSeqno,
          now, notified, result, threads, dmQueueMutex, lastCall>>
\* an operation on one part leaves the vBucket proper and the others alone
FrameExcept(part) ==
    /\ UNCHANGED core
    /\ IF part = "request" THEN TRUE ELSE UNCHANGED request
    /\ IF part = "store" THEN TRUE ELSE UNCHANGED store
    /\ IF part = "replica" THEN TRUE ELSE UNCHANGED replica
    /\ IF part = "hp" THEN TRUE ELSE UNCHANGED hp
    /\ IF part = "manifest" THEN TRUE ELSE UNCHANGED manifest
    /\ IF part = "hbl" THEN TRUE ELSE UNCHANGED hbl
    /\ IF part = "pendingOps" THEN TRUE ELSE UNCHANGED pendingOps

\* the log of calls: off, nothing called yet, or the call and its arguments
Call(op, key, node, seqno) ==
    [op |-> op, key |-> key, node |-> node, seqno |-> seqno]
NoLog == Call("off", "", "", 0)
NoCall == Call("none", "", "", 0)
Log(call) == lastCall' = IF lastCall = NoLog THEN NoLog ELSE call

(***************************************************************************)
(* The part of the state that the operations below rewrite, as one value.  *)
(***************************************************************************)
St == [ht |-> ht, ckpt |-> ckpt, tracked |-> tracked, pos |-> pos,
       hps |-> hps, notified |-> notified, thrown |-> FALSE]

Install(st) ==
    /\ ht' = st.ht
    /\ ckpt' = st.ckpt
    /\ tracked' = st.tracked
    /\ pos' = st.pos
    /\ hps' = st.hps
    /\ notified' = st.notified

(***************************************************************************)
(* CheckpointManager.                                                      *)
(***************************************************************************)
HighSeqnoOf(ck) == IF Len(ck) = 0 THEN 0 ELSE ck[Len(ck)].bySeqno

\* VBucket::getHighSeqno
getHighSeqno == HighSeqnoOf(ckpt)

\* CheckpointManager::queueDirty: the next seqno is written into the item
\* when it is to be generated
CkptQueueDirty(ck, item, genBySeqno) ==
    Append(ck, [item EXCEPT !.bySeqno =
                   IF genBySeqno THEN HighSeqnoOf(ck) + 1 ELSE item.bySeqno,
                            !.timeout = Infinity])

(***************************************************************************)
(* Replication chains.                                                     *)
(***************************************************************************)
ChainNodes(chain) == {chain[i] : i \in 1..Len(chain)} \ {Null}
ChainMajority(chain) == (Len(chain) \div 2) + 1
TopologyNodes(topo) == UNION {ChainNodes(topo[i]) : i \in 1..Len(topo)}

\* ActiveDurabilityMonitor::isDurabilityPossible
isDurabilityPossible(topo) ==
    \A i \in 1..Len(topo) :
        Cardinality(ChainNodes(topo[i])) >= ChainMajority(topo[i])

(***************************************************************************)
(* Items and stored values.                                                *)
(***************************************************************************)
\* StoredValue::toItem: the queued form of a stored value.  svSeqno is the
\* bySeqno the stored value had when the item was made from it.
MakeItem(key, op, deleted, dur, svSeqno) ==
    [bySeqno |-> 0, key |-> key, op |-> op, deleted |-> deleted,
     prepareSeqno |-> 0, level |-> dur.level, timeout |-> dur.timeout,
     svSeqno |-> svSeqno]

\* Item::isPending
isPending(item) == item.op = "prepare"

\* HashTable::findForWrite: the pending value of the key when there is one,
\* the committed one otherwise
findForWrite(table, key) ==
    IF table[key].p # NoSV THEN table[key].p ELSE table[key].c

\* mutant: the callback is made twice
notifyClientOfSyncWriteComplete_Twice(st, cookie, res) ==
    [st EXCEPT !.notified = @ \o << [cookie |-> cookie, status |-> res],
                                    [cookie |-> cookie, status |-> res] >>]

\* VBucket::notifyClientOfSyncWriteComplete
notifyClientOfSyncWriteComplete(st, cookie, res) ==
    [st EXCEPT !.notified = Append(@, [cookie |-> cookie, status |-> res])]

(***************************************************************************)
(* The durability monitors: tracked writes, node positions, HPS.           *)
(***************************************************************************)
\* SyncWrite: the prepare, the cookie to notify and the time it was tracked
MakeSyncWrite(cookie, item) ==
    [seqno |-> item.bySeqno, key |-> item.key, level |-> item.level,
     timeout |-> item.timeout, start |-> now, cookie |-> cookie]

\* SyncWrite::isExpired: never without a timeout, else once the time it
\* was tracked plus the timeout is reached
isExpired(sw, asOf) ==
    sw.timeout.kind = "Ms" /\ sw.start + sw.timeout.ms <= asOf

\* ActiveDurabilityMonitor::getNodeWriteSeqno: the active's position is
\* the high prepared seqno
getNodeWriteSeqno(st, node) ==
    IF node = Active THEN st.hps ELSE st.pos[node].w

getNodeAckSeqno(st, node) == IF node = Active THEN 0 ELSE st.pos[node].a

\* mutant: both persist levels wait for persistence on every monitor
IsFence_OnEveryMonitor(kind, level) ==
    level \in {"MajorityAndPersistOnMaster", "PersistToMajority"}

\* mutant: no level waits for persistence on a replica
IsFence_ActiveOnly(kind, level) ==
    kind = "active"
        /\ level \in {"MajorityAndPersistOnMaster", "PersistToMajority"}

\* does a prepare of this level wait for local persistence on this monitor
IsFence(kind, level) ==
    IF kind = "active"
    THEN level \in {"MajorityAndPersistOnMaster", "PersistToMajority"}
    ELSE level = "PersistToMajority"

SeqnosAbove(trk, h) == {trk[i].seqno : i \in {j \in 1..Len(trk) : trk[j].seqno > h}}
Min(S) == CHOOSE x \in S : \A y \in S : x <= y
Max(S) == CHOOSE x \in S : \A y \in S : x >= y
TrackedAt(trk, s) == trk[CHOOSE i \in 1..Len(trk) : trk[i].seqno = s]

\* DurabilityMonitor::updateHighPreparedSeqno: move over the tracked
\* prepares in order, up to the first one that waits for persistence
RECURSIVE updateHighPreparedSeqno(_, _, _, _)
updateHighPreparedSeqno(kind, trk, h, persisted) ==
    IF SeqnosAbove(trk, h) = {} THEN h
    ELSE LET next == TrackedAt(trk, Min(SeqnosAbove(trk, h)))
         IN IF IsFence(kind, next.level) /\ next.seqno > persisted
            THEN h
            ELSE updateHighPreparedSeqno(kind, trk, next.seqno, persisted)

\* mutant: only the first chain is asked
isSatisfied_FirstChainOnly(st, topo, sw) ==
    /\ Cardinality({n \in ChainNodes(topo[1]) :
                       getNodeWriteSeqno(st, n) >= sw.seqno})
          >= ChainMajority(topo[1])
    /\ sw.level # "Majority" => st.hps >= sw.seqno

\* SyncWrite::isSatisfied: a majority of every chain has written the
\* prepare, and for the persist levels the active has it persisted
isSatisfied(st, topo, sw) ==
    /\ \A i \in 1..Len(topo) :
          Cardinality({n \in ChainNodes(topo[i]) :
                          getNodeWriteSeqno(st, n) >= sw.seqno})
             >= ChainMajority(topo[i])
    /\ sw.level # "Majority" => st.hps >= sw.seqno

(***************************************************************************)
(* VBucket::queueItem and the stored-value updates built on it.            *)
(***************************************************************************)
\* ActiveDurabilityMonitor::addSyncWrite: track the prepare, then let the
\* active's own position (the HPS) move over it
ADM_addSyncWrite(st, cookie, item) ==
    LET trk == Append(st.tracked, MakeSyncWrite(cookie, item))
    IN [st EXCEPT !.tracked = trk,
                  !.hps = updateHighPreparedSeqno("active", trk, st.hps,
                                                  persistenceSeqno)]

\* mutant: the passive monitor tracks a prepare whatever its timeout
PDM_addSyncWrite_AnyTimeout(st, item) ==
    LET trk == Append(st.tracked, MakeSyncWrite(NoCookie, item))
    IN [st EXCEPT !.tracked = trk,
                  !.hps = updateHighPreparedSeqno("passive", trk, st.hps,
                                                  persistenceSeqno)]

\* PassiveDurabilityMonitor::addSyncWrite: the timeout must have been
\* resolved by the active; the bucket default throws invalid_argument
PDM_addSyncWrite(st, item) ==
    LET trk == Append(st.tracked, MakeSyncWrite(NoCookie, item))
    IN IF item.timeout = BucketDefault
       THEN [st EXCEPT !.thrown = TRUE]
       ELSE [st EXCEPT !.tracked = trk,
                       !.hps = updateHighPreparedSeqno("passive", trk,
                                                       st.hps,
                                                       persistenceSeqno)]

\* mutant: nobody waits for dmQueueMutex
durLock_lock_NoWait(mutex, item) == TRUE

\* mutant: the seqno of the item is never generated
queueItem_queueDirty_NoSeqno(ck, item, genBySeqno) ==
    CkptQueueDirty(ck, item, FALSE)

\* VBucket::queueItem, taking the lock: only a pending item waits for
\* dmQueueMutex
durLock_lock(mutex, item) == ~isPending(item) \/ mutex = "free"

\* VBucket::queueItem, the call of CheckpointManager::queueDirty
queueItem_queueDirty(ck, item, genBySeqno) ==
    CkptQueueDirty(ck, item, genBySeqno)

\* VBucket::queueItem, registering a pending item with the monitor
queueItem_addSyncWrite(st, item, cookie) ==
    IF state = "active" THEN ADM_addSyncWrite(st, cookie, item)
    ELSE IF state \in {"replica", "pending"}
         THEN PDM_addSyncWrite(st, item)
         ELSE st

\* VBucket::queueItem: into the checkpoint, then, for a pending item, into
\* the durability monitor; dmQueueMutex makes the pair one step
queueItem(st, item, genBySeqno, cookie) ==
    LET ck == queueItem_queueDirty(st.ckpt, item, genBySeqno)
        st1 == [st EXCEPT !.ckpt = ck]
        qi == [item EXCEPT !.bySeqno = HighSeqnoOf(ck)]
    IN IF isPending(item)
       THEN queueItem_addSyncWrite(st1, qi, cookie)
       ELSE st1

\* the stored value an item leaves in the hash table once it is queued
StoredValueOf(item, seqno) ==
    [bySeqno |-> seqno,
     committed |-> IF item.op = "prepare" THEN "Pending"
                   ELSE IF item.op = "commit" THEN "CommittedViaPrepare"
                   ELSE "CommittedViaMutation",
     deleted |-> item.deleted]

\* EPVBucket::addNewStoredValue / updateStoredValue, the storing half:
\* HashTable update, then VBucket::queueDirty, which writes the seqno the
\* checkpoint manager gave back into the stored value
StoreAndQueue(st, item, genBySeqno, cookie) ==
    LET st1 == queueItem(st, item, genBySeqno, cookie)
        sv == StoredValueOf(item, HighSeqnoOf(st1.ckpt))
    IN IF isPending(item)
       THEN [st1 EXCEPT !.ht[item.key].p = sv]
       ELSE [st1 EXCEPT !.ht[item.key].c = sv]

\* EPVBucket::updateStoredValue: a Pending value is never overwritten
updateStoredValue(st, v, item, genBySeqno, cookie) ==
    IF v.committed = "Pending"
    THEN [st |-> st, status |-> "IsPendingSyncWrite", queued |-> FALSE]
    ELSE [st |-> StoreAndQueue(st, item, genBySeqno, cookie),
          status |-> "WasClean", queued |-> TRUE]

\* EPVBucket::addNewStoredValue
addNewStoredValue(st, item, genBySeqno, cookie) ==
    [st |-> StoreAndQueue(st, item, genBySeqno, cookie),
     status |-> "WasClean", queued |-> TRUE]

\* EPVBucket::softDeleteStoredValue
softDeleteStoredValue(st, v, item, cookie) ==
    IF v.committed = "Pending"
    THEN [st |-> st, status |-> "IsPendingSyncWrite", queued |-> FALSE]
    ELSE [st |-> StoreAndQueue(st, item, TRUE, cookie),
          status |-> "WasClean", queued |-> TRUE]

\* EPVBucket::commitStoredValue: the Pending value becomes the committed
\* value of the key and a commit item is queued for it
commitStoredValue(st, key, commitSeqno) ==
    LET v == st.ht[key].p
        item == MakeItem(key, "commit", v.deleted, NoDur, v.bySeqno)
        ck == CkptQueueDirty(st.ckpt,
                             [item EXCEPT !.bySeqno = commitSeqno],
                             commitSeqno = 0)
    IN [st EXCEPT !.ckpt = ck,
                  !.ht[key] = [c |-> StoredValueOf(item, HighSeqnoOf(ck)),
                               p |-> NoSV]]

\* mutant: the abort item does not get the prepare seqno of the call
queueAbort_NoPrepareSeqno(st, v, key, prepareSeqno, abortSeqno) ==
    LET item == [MakeItem(key, "abort", TRUE, NoDur, v.bySeqno)
                   EXCEPT !.bySeqno = abortSeqno]
    IN queueItem(st, item, abortSeqno = 0, NoCookie)

\* VBucket::queueAbort: the abort item is a deletion that carries the
\* prepareSeqno it was called with
queueAbort(st, v, key, prepareSeqno, abortSeqno) ==
    LET item == [MakeItem(key, "abort", TRUE, NoDur, v.bySeqno)
                   EXCEPT !.prepareSeqno = prepareSeqno,
                          !.bySeqno = abortSeqno]
    IN queueItem(st, item, abortSeqno = 0, NoCookie)

\* EPVBucket::abortStoredValue: queue the abort, drop the Pending value
abortStoredValue(st, key, prepareSeqno, abortSeqno) ==
    LET st1 == queueAbort(st, st.ht[key].p, key, prepareSeqno, abortSeqno)
    IN [st1 EXCEPT !.ht[key].p = NoSV]

\* mutant: the value found is committed whether it is Pending or not
commit_NoPendingCheck(st, key, pendingSeqno, commitSeqno, cookie) ==
    LET v == findForWrite(st.ht, key)
    IN IF v = NoSV THEN [st |-> st, ret |-> "KEY_ENOENT"]
       ELSE LET st1 == commitStoredValue(st, key, commitSeqno)
            IN [st |-> IF cookie # NoCookie
                       THEN notifyClientOfSyncWriteComplete(st1, cookie,
                                                            "SUCCESS")
                       ELSE st1,
                ret |-> "SUCCESS"]

\* VBucket::commit
commit(st, key, pendingSeqno, commitSeqno, cookie) ==
    LET v == findForWrite(st.ht, key)
    IN IF v = NoSV THEN [st |-> st, ret |-> "KEY_ENOENT"]
       ELSE IF v.committed # "Pending" THEN [st |-> st, ret |-> "EINVAL"]
       ELSE LET st1 == commitStoredValue(st, key, commitSeqno)
            IN [st |-> IF cookie # NoCookie
                       THEN notifyClientOfSyncWriteComplete(st1, cookie,
                                                            "SUCCESS")
                       ELSE st1,
                ret |-> "SUCCESS"]

\* VBucket::abort
abort(st, key, prepareSeqno, abortSeqno, cookie) ==
    LET v == findForWrite(st.ht, key)
    IN IF v = NoSV THEN [st |-> st, ret |-> "KEY_ENOENT"]
       ELSE IF v.committed # "Pending" THEN [st |-> st, ret |-> "EINVAL"]
       ELSE LET st1 == abortStoredValue(st, key, prepareSeqno, abortSeqno)
            IN [st |-> IF cookie # NoCookie
                       THEN notifyClientOfSyncWriteComplete(
                                st1, cookie, "SYNC_WRITE_AMBIGUOUS")
                       ELSE st1,
                ret |-> "SUCCESS"]

(***************************************************************************)
(* ActiveDurabilityMonitor: acks, persistence, timeouts.                   *)
(***************************************************************************)
\* ActiveDurabilityMonitor::commit, for each write taken off the tracked
\* list: VBucket::commit with the cookie of the write; a failure throws
RECURSIVE ADM_commit(_, _)
ADM_commit(st, toCommit) ==
    IF toCommit = <<>> \/ st.thrown THEN st
    ELSE LET sw == Head(toCommit)
             r == commit(st, sw.key, sw.seqno, 0, sw.cookie)
         IN IF r.ret # "SUCCESS" THEN [st EXCEPT !.thrown = TRUE]
            ELSE ADM_commit(r.st, Tail(toCommit))

\* ActiveDurabilityMonitor::abort, for each expired write
RECURSIVE ADM_abort(_, _)
ADM_abort(st, toAbort) ==
    IF toAbort = <<>> \/ st.thrown THEN st
    ELSE LET sw == Head(toAbort)
             r == abort(st, sw.key, sw.seqno, 0, sw.cookie)
         IN IF r.ret # "SUCCESS" THEN [st EXCEPT !.thrown = TRUE]
            ELSE ADM_abort(r.st, Tail(toAbort))

\* mutant: the satisfied writes are committed from the newest
checkForCommit_NewestFirst(st, topo) ==
    LET Sat(sw) == isSatisfied(st, topo, sw)
        Unsat(sw) == ~isSatisfied(st, topo, sw)
        sat == SelectSeq(st.tracked, Sat)
    IN ADM_commit([st EXCEPT !.tracked = SelectSeq(st.tracked, Unsat)],
                  [i \in 1..Len(sat) |-> sat[Len(sat) + 1 - i]])

\* walk the tracked writes from the oldest, take off all whose level is
\* satisfied and commit them
checkForCommit(st, topo) ==
    LET Sat(sw) == isSatisfied(st, topo, sw)
        Unsat(sw) == ~isSatisfied(st, topo, sw)
    IN ADM_commit([st EXCEPT !.tracked = SelectSeq(st.tracked, Unsat)],
                  SelectSeq(st.tracked, Sat))

\* the position of a node after it acked seqno s: the last tracked write
\* at or below s, and s itself as the last ack
advanceNodePosition(trk, p, s) ==
    LET reached == {x \in SeqnosAbove(trk, p.w) : x <= s}
    IN [w |-> IF reached = {} THEN p.w ELSE Max(reached), a |-> s]

\* mutant: an ack below the last ack of the node is taken as it comes
seqnoAckReceived_NotMonotonic(st, topo, node, s) ==
    IF node \notin TopologyNodes(topo) THEN st
    ELSE checkForCommit(
             [st EXCEPT !.pos[node] =
                            advanceNodePosition(st.tracked, st.pos[node], s)],
             topo)

\* mutant: an ack of a node outside the topology is a logic error
seqnoAckReceived_UnknownThrows(st, topo, node, s) ==
    IF node \notin TopologyNodes(topo) THEN [st EXCEPT !.thrown = TRUE]
    ELSE IF s < st.pos[node].a THEN [st EXCEPT !.thrown = TRUE]
    ELSE checkForCommit(
             [st EXCEPT !.pos[node] =
                            advanceNodePosition(st.tracked, st.pos[node], s)],
             topo)

\* ActiveDurabilityMonitor::seqnoAckReceived
seqnoAckReceived(st, topo, node, s) ==
    IF node \notin TopologyNodes(topo) THEN st
    ELSE IF s < st.pos[node].a THEN [st EXCEPT !.thrown = TRUE]
    ELSE checkForCommit(
             [st EXCEPT !.pos[node] =
                            advanceNodePosition(st.tracked, st.pos[node], s)],
             topo)

\* ActiveDurabilityMonitor::notifyLocalPersistence
ADM_notifyLocalPersistence(st, topo) ==
    checkForCommit(
        [st EXCEPT !.hps = updateHighPreparedSeqno("active", st.tracked,
                                                   st.hps, persistenceSeqno)],
        topo)

\* PassiveDurabilityMonitor::notifyLocalPersistence
PDM_notifyLocalPersistence(st) ==
    [st EXCEPT !.hps = updateHighPreparedSeqno("passive", st.tracked,
                                               st.hps, persistenceSeqno)]

\* ActiveDurabilityMonitor::processTimeout: the expired writes leave the
\* tracked list, then each is aborted
processTimeout(st, asOf) ==
    LET Expired(sw) == isExpired(sw, asOf)
        Alive(sw) == ~isExpired(sw, asOf)
    IN ADM_abort([st EXCEPT !.tracked = SelectSeq(st.tracked, Alive)],
                 SelectSeq(st.tracked, Expired))

\* mutant: the ack never reaches the durability monitor
seqnoAcknowledged_Dropped(st, replicaId, preparedSeqno) == st

\* VBucket::seqnoAcknowledged
seqnoAcknowledged(st, replicaId, preparedSeqno) ==
    seqnoAckReceived(st, topology, replicaId, preparedSeqno)

\* mutant: the flusher's notification never reaches the monitor
notifyPersistenceToDurabilityMonitor_Skipped(st) == st

\* VBucket::notifyPersistenceToDurabilityMonitor
notifyPersistenceToDurabilityMonitor(st) ==
    IF state = "active" THEN ADM_notifyLocalPersistence(st, topology)
    ELSE IF state \in {"replica", "pending"}
         THEN PDM_notifyLocalPersistence(st)
         ELSE [st EXCEPT !.thrown = TRUE]

\* mutant: the timeout task does nothing on an active vBucket either
processDurabilityTimeout_NotActive(st, asOf) == st

\* VBucket::processDurabilityTimeout
processDurabilityTimeout(st, asOf) ==
    IF state # "active" THEN st ELSE processTimeout(st, asOf)

(***************************************************************************)
(* The front-end writes of VBucket.  They are modelled for a value-        *)
(* eviction bucket, without CAS, locks, expiry or a store-if predicate.    *)
(***************************************************************************)
\* the item a front-end write builds: pending when durability is required
WriteItem(key, deleted, dur) ==
    MakeItem(key, IF dur.level # "None" THEN "prepare" ELSE "mutation",
             deleted, dur, 0)

\* VBucket::processSet (cas = 0, allowExisting)
processSet(st, v, item, hasMemory, genBySeqno, cookie) ==
    IF ~hasMemory THEN [st |-> st, status |-> "NoMem", queued |-> FALSE]
    ELSE IF v # NoSV
         THEN updateStoredValue(st, v, item, genBySeqno, cookie)
         ELSE addNewStoredValue(st, item, genBySeqno, cookie)

\* VBucket::processAdd: the status of updateStoredValue is dropped
processAdd(st, v, item, hasMemory, cookie) ==
    IF v # NoSV /\ ~v.deleted
    THEN [st |-> st, status |-> "Exists", queued |-> FALSE]
    ELSE IF ~hasMemory
         THEN [st |-> st, status |-> "NoMem", queued |-> FALSE]
         ELSE IF v # NoSV
              THEN LET r == updateStoredValue(st, v, item, TRUE, cookie)
                   IN [st |-> r.st, status |-> "UnDel", queued |-> r.queued]
              ELSE LET r == addNewStoredValue(st, item, TRUE, cookie)
                   IN [st |-> r.st, status |-> "Success",
                       queued |-> r.queued]

\* VBucket::processSoftDelete (cas = 0, value not locked)
processSoftDelete(st, v, item, cookie) ==
    softDeleteStoredValue(st, v, item, cookie)

\* mutant: the durability check at the head of set is left out
set_NoDurabilityCheck(st, key, dur, hasMemory, cookie) ==
    LET itm == WriteItem(key, FALSE, dur)
        v == findForWrite(st.ht, key)
        r == processSet(st, v, itm, hasMemory, TRUE, cookie)
    IN [st |-> r.st,
        ret |-> CASE r.status = "NoMem" -> "ENOMEM"
                  [] r.status = "IsPendingSyncWrite"
                       -> "SYNC_WRITE_IN_PROGRESS"
                  [] OTHER -> IF isPending(itm) THEN "EWOULDBLOCK"
                              ELSE "SUCCESS"]

\* VBucket::set
set(st, key, dur, hasMemory, cookie) ==
    LET itm == WriteItem(key, FALSE, dur)
        v == findForWrite(st.ht, key)
        r == processSet(st, v, itm, hasMemory, TRUE, cookie)
    IN IF isPending(itm) /\ ~isDurabilityPossible(topology)
       THEN [st |-> st, ret |-> "DURABILITY_IMPOSSIBLE"]
       ELSE [st |-> r.st,
             ret |-> CASE r.status = "NoMem" -> "ENOMEM"
                       [] r.status = "IsPendingSyncWrite"
                            -> "SYNC_WRITE_IN_PROGRESS"
                       [] OTHER -> IF isPending(itm) THEN "EWOULDBLOCK"
                                   ELSE "SUCCESS"]

\* VBucket::replace
replace(st, key, dur, hasMemory, cookie) ==
    LET itm == WriteItem(key, FALSE, dur)
        v == findForWrite(st.ht, key)
        r == processSet(st, v, itm, hasMemory, TRUE, cookie)
    IN IF isPending(itm) /\ ~isDurabilityPossible(topology)
       THEN [st |-> st, ret |-> "DURABILITY_IMPOSSIBLE"]
       ELSE IF v = NoSV \/ v.deleted
            THEN [st |-> st, ret |-> "KEY_ENOENT"]
            ELSE [st |-> r.st,
                  ret |-> CASE r.status = "NoMem" -> "ENOMEM"
                            [] r.status = "IsPendingSyncWrite"
                                 -> "SYNC_WRITE_IN_PROGRESS"
                            [] OTHER -> IF isPending(itm) THEN "EWOULDBLOCK"
                                        ELSE "SUCCESS"]

\* VBucket::add
add(st, key, dur, hasMemory, cookie) ==
    LET itm == WriteItem(key, FALSE, dur)
        v == findForWrite(st.ht, key)
        r == processAdd(st, v, itm, hasMemory, cookie)
    IN IF isPending(itm) /\ ~isDurabilityPossible(topology)
       THEN [st |-> st, ret |-> "DURABILITY_IMPOSSIBLE"]
       ELSE [st |-> r.st,
             ret |-> CASE r.status = "NoMem" -> "ENOMEM"
                       [] r.status = "Exists" -> "NOT_STORED"
                       [] OTHER -> IF isPending(itm) THEN "EWOULDBLOCK"
                                   ELSE "SUCCESS"]

\* VBucket::deleteItem
deleteItem(st, key, dur, cookie) ==
    LET itm == WriteItem(key, TRUE, dur)
        v == findForWrite(st.ht, key)
        r == processSoftDelete(st, v, itm, cookie)
    IN IF dur.level # "None" /\ ~isDurabilityPossible(topology)
       THEN [st |-> st, ret |-> "DURABILITY_IMPOSSIBLE"]
       ELSE IF v = NoSV \/ v.deleted
            THEN [st |-> st, ret |-> "KEY_ENOENT"]
            ELSE [st |-> r.st,
                  ret |-> CASE r.status = "IsPendingSyncWrite"
                                 -> "SYNC_WRITE_IN_PROGRESS"
                            [] OTHER -> IF dur.level # "None"
                                        THEN "EWOULDBLOCK" ELSE "SUCCESS"]

\* VBucket::setWithMeta, as the replication stream of a replica calls it:
\* no conflict check, the seqno of the active is kept
setWithMeta(st, key, seqno, dur, hasMemory) ==
    LET itm == [WriteItem(key, FALSE, dur) EXCEPT !.bySeqno = seqno]
        v == findForWrite(st.ht, key)
        r == processSet(st, v, itm, hasMemory, FALSE, NoCookie)
    IN [st |-> r.st,
        ret |-> CASE r.st.thrown -> "invalid_argument"
                  [] r.status = "NoMem" -> "ENOMEM"
                  [] r.status = "IsPendingSyncWrite"
                       -> "SYNC_WRITE_IN_PROGRESS"
                  [] OTHER -> "SUCCESS"]

\* VBucket::deleteWithMeta, as a cross-datacentre delete reaches an active:
\* no conflict check, the seqno is generated, no durability; a key without
\* a value gets a temporary deleted one, so that the delete is queued
deleteWithMeta(st, key) ==
    LET itm == WriteItem(key, TRUE, NoDur)
        v == findForWrite(st.ht, key)
        r == processSoftDelete(st, v, itm, NoCookie)
    IN [st |-> r.st,
        ret |-> CASE r.status = "IsPendingSyncWrite"
                       -> "SYNC_WRITE_IN_PROGRESS"
                  [] OTHER -> "SUCCESS"]

(***************************************************************************)
(* State transitions.  A monitor is the triple of its tracked writes, its  *)
(* node positions and its high prepared seqno.                             *)
(***************************************************************************)
\* a monitor as its constructor leaves it: nothing tracked, HPS 0
FreshMonitor(st) ==
    [st EXCEPT !.tracked = <<>>,
               !.pos = [n \in Replicas |-> [w |-> 0, a |-> 0]],
               !.hps = 0]

\* ActiveDurabilityMonitor(PassiveDurabilityMonitor&&): the tracked writes
\* of the passive monitor move into the new active one; the positions are
\* made anew when the topology is set
ADM_fromPDM(st) == [FreshMonitor(st) EXCEPT !.tracked = st.tracked]

\* mutant: the active monitor is always constructed from the vBucket alone
setupSyncReplication_FreshActive(st, to, topo, prevVBState) ==
    [st |-> IF to \in {"active", "replica", "pending"}
            THEN FreshMonitor(st) ELSE st,
     topology |-> IF topo # Null THEN topo ELSE <<>>,
     thrown |-> topo # Null /\ to # "active"]

\* VBucket::setupSyncReplication, called with state already set to `to`
setupSyncReplication(st, to, topo, prevVBState) ==
    [st |-> IF to = "active"
            THEN IF prevVBState \in {"replica", "pending"}
                 THEN ADM_fromPDM(st)
                 ELSE FreshMonitor(st)
            ELSE IF to \in {"replica", "pending"}
                 THEN FreshMonitor(st)
                 ELSE st,
     topology |-> IF topo # Null THEN topo ELSE <<>>,
     thrown |-> topo # Null /\ to # "active"]

\* VBucket::setState / setState_UNLOCKED: meta is null or the topology it
\* carries; meta for a state other than active is refused before anything
\* changes
setState(st, to, meta) ==
    IF meta # Null /\ to # "active"
    THEN [st |-> st, state |-> state, topology |-> topology,
          ret |-> "invalid_argument"]
    ELSE LET r == setupSyncReplication(st, to, meta, state)
         IN [st |-> r.st, state |-> to, topology |-> r.topology,
             ret |-> "SUCCESS"]

(***************************************************************************)
(* The replication topology as setState receives it: a JSON value.  Every  *)
(* JSON value is a record of its type, its string and its elements.        *)
(***************************************************************************)
JStr(str) == [t |-> "string", s |-> str, a |-> <<>>]
JNull == [t |-> "null", s |-> "", a |-> <<>>]
JNum == [t |-> "number", s |-> "", a |-> <<>>]
JObj == [t |-> "object", s |-> "", a |-> <<>>]
JArr(elems) == [t |-> "array", s |-> "", a |-> elems]

\* the first of the indices of seq whose element has an error, 0 if none
FirstBad(seq, Err(_, _)) ==
    LET bad == {k \in 1..Len(seq) : Err(seq[k], k) # ""}
    IN IF bad = {} THEN 0 ELSE Min(bad)

\* validateReplicationTopology, the switch on the type of a node
NodeError(node, k) ==
    IF node.t = "string" THEN ""
    ELSE IF node.t = "null"
         THEN IF k = 1 THEN "(active) cannot be null" ELSE ""
         ELSE "must be a string"

\* validateReplicationTopology, the body of the loop over the chains
ChainError(nodes, chainId) ==
    IF nodes.t # "array" THEN "chain must be an array"
    ELSE IF Len(nodes.a) < 1 \/ Len(nodes.a) > 4
         THEN "chain must contain 1..4 nodes"
         ELSE LET k == FirstBad(nodes.a, NodeError)
              IN IF k = 0 THEN "" ELSE NodeError(nodes.a[k], k)

\* mutant: a null active node is let through
validateReplicationTopology_NullActive(json) ==
    IF json.t # "array" THEN "must be an array"
    ELSE IF Len(json.a) < 1 \/ Len(json.a) > 2
         THEN "must contain 1..2 elements"
         ELSE IF \E i \in 1..Len(json.a) :
                    \/ json.a[i].t # "array"
                    \/ Len(json.a[i].a) \notin 1..4
                    \/ \E k \in 1..Len(json.a[i].a) :
                           json.a[i].a[k].t \notin {"string", "null"}
              THEN "chain is not valid"
              ELSE ""

\* VBucket::validateReplicationTopology: the error found first, "" if none
validateReplicationTopology(json) ==
    IF json.t # "array" THEN "must be an array"
    ELSE IF Len(json.a) < 1 \/ Len(json.a) > 2
         THEN "must contain 1..2 elements"
         ELSE LET i == FirstBad(json.a, ChainError)
              IN IF i = 0 THEN "" ELSE ChainError(json.a[i], i)

\* ActiveDurabilityMonitor::setReplicationTopology throws when a chain
\* names a node twice; undefined (null) slots are no names
DuplicateNode(json) ==
    \E i \in 1..Len(json.a) :
        \E k, l \in 1..Len(json.a[i].a) :
            /\ k < l
            /\ json.a[i].a[k].t = "string"
            /\ json.a[i].a[k] = json.a[i].a[l]

\* the chains of a validated JSON topology
RECURSIVE ChainOf(_, _)
ChainOf(nodes, n) ==
    IF n = 0 THEN <<>>
    ELSE Append(ChainOf(nodes, n - 1),
                IF nodes[n].t = "null" THEN Null ELSE nodes[n].s)

RECURSIVE ChainsOf(_, _)
ChainsOf(chains, n) ==
    IF n = 0 THEN <<>>
    ELSE Append(ChainsOf(chains, n - 1),
                ChainOf(chains[n].a, Len(chains[n].a)))

TopologyOf(json) == ChainsOf(json.a, Len(json.a))

\* VBucket::setState / setState_UNLOCKED with meta {"topology": json}: the
\* topology is validated before anything changes; the monitor refuses a
\* duplicate node after the state and the monitor have been replaced, and
\* is then left without topology
setStateMeta(st, to, json) ==
    IF to # "active" \/ validateReplicationTopology(json) # ""
    THEN [st |-> st, state |-> state, topology |-> topology,
          ret |-> "invalid_argument"]
    ELSE LET r == setupSyncReplication(st, to, TopologyOf(json), state)
         IN IF DuplicateNode(json)
            THEN [st |-> r.st, state |-> to, topology |-> <<>>,
                  ret |-> "invalid_argument"]
            ELSE [st |-> r.st, state |-> to, topology |-> r.topology,
                  ret |-> "SUCCESS"]

(***************************************************************************)
(* An active vBucket: the state after construction and its operations.     *)
(***************************************************************************)
\* VBucket::VBucket, constructed active with the replication topology topo
Construct(topo, keys) ==
    /\ state = "active"
    /\ topology = topo
    /\ ht = [k \in keys |-> NoEntry]
    /\ ckpt = <<>>
    /\ tracked = <<>>
    /\ pos = [n \in Replicas |-> [w |-> 0, a |-> 0]]
    /\ hps = 0
    /\ persistenceSeqno = 0
    /\ now = 0
    /\ notified = <<>>
    /\ result = "SUCCESS"
    /\ threads = [t \in Threads |-> Idle]
    /\ dmQueueMutex = "free"
    /\ lastCall \in {NoLog, NoCall}

\* VBucket::VBucket, constructed replica: no topology, a passive monitor
ConstructReplica ==
    /\ state = "replica"
    /\ topology = <<>>
    /\ ht = [k \in Keys |-> NoEntry]
    /\ ckpt = <<>>
    /\ tracked = <<>>
    /\ pos = [n \in Replicas |-> [w |-> 0, a |-> 0]]
    /\ hps = 0
    /\ persistenceSeqno = 0
    /\ now = 0
    /\ notified = <<>>
    /\ result = "SUCCESS"
    /\ threads = [t \in Threads |-> Idle]
    /\ dmQueueMutex = "free"
    /\ lastCall \in {NoLog, NoCall}

Init ==
    /\ (\E topo \in Topologies : Construct(topo, Keys)) \/ ConstructReplica
    /\ lastCall = NoLog
    /\ ExtInit

\* the key holds a Pending (prepared, unresolved) value
PendingAt(key) == ht[key].p # NoSV

\* the seqnos a write may still need: one for itself, one to resolve each
\* Pending value
SeqnoCap == IF DOMAIN ht = Keys THEN MaxSeqno ELSE MaxSeqnoFence
SeqnosLeft(n) ==
    getHighSeqno + Cardinality({k \in DOMAIN ht : ht[k].p # NoSV}) + n
        <= SeqnoCap
SeqnosNeeded(dur) == IF dur.level # "None" THEN 2 ELSE 1

\* the cookie of a client request: one per request, never null
NewCookie == getHighSeqno + 1

Finish(r, call) ==
    /\ Install(r.st)
    /\ result' = r.ret
    /\ Log(call)
    /\ UNCHANGED ext
    /\ UNCHANGED <<state, topology, persistenceSeqno, now, threads,
                   dmQueueMutex>>

\* what a call of the durability monitor returns: it throws or succeeds
Returned(st) ==
    [st |-> st, ret |-> IF st.thrown THEN "logic_error" ELSE "SUCCESS"]

Set(key, dur, hasMemory) ==
    /\ state = "active"
    /\ SeqnosLeft(SeqnosNeeded(dur))
    /\ Finish(set(St, key, dur, hasMemory, NewCookie), Call("set", key, "", 0))

Add(key, dur, hasMemory) ==
    /\ state = "active"
    /\ SeqnosLeft(SeqnosNeeded(dur))
    /\ Finish(add(St, key, dur, hasMemory, NewCookie), Call("add", key, "", 0))

Replace(key, dur, hasMemory) ==
    /\ state = "active"
    /\ SeqnosLeft(SeqnosNeeded(dur))
    /\ Finish(replace(St, key, dur, hasMemory, NewCookie),
              Call("replace", key, "", 0))

DeleteItem(key, dur) ==
    /\ state = "active"
    /\ SeqnosLeft(SeqnosNeeded(dur))
    /\ Finish(deleteItem(St, key, dur, NewCookie),
              Call("deleteItem", key, "", 0))

\* the replication stream hands a replica the next item of the active
SetWithMeta(key, seqno, dur, hasMemory) ==
    /\ state \in {"replica", "pending"}
    /\ getHighSeqno < seqno
    /\ Finish(setWithMeta(St, key, seqno, dur, hasMemory),
              Call("setWithMeta", key, "", seqno))

DeleteWithMeta(key) ==
    /\ state = "active"
    /\ SeqnosLeft(1)
    /\ Finish(deleteWithMeta(St, key), Call("deleteWithMeta", key, "", 0))

\* the cluster manager changes the state of the vBucket; a transition to
\* active carries the replication topology
SetState_Vb(to, meta) ==
    /\ to = "active" => meta # Null
    /\ LET r == setState(St, to, meta)
       IN /\ Install(r.st)
          /\ state' = r.state
          /\ topology' = r.topology
          /\ result' = r.ret
    /\ Log(Call("setState", state, to, 0))
    /\ UNCHANGED <<persistenceSeqno, now, threads, dmQueueMutex>>

SetState(to, meta) == SetState_Vb(to, meta) /\ UNCHANGED ext

\* setState with a meta that carries any JSON value as the topology
SetStateMeta(to, json) ==
    /\ LET r == setStateMeta(St, to, json)
       IN /\ Install(r.st)
          /\ state' = r.state
          /\ topology' = r.topology
          /\ result' = r.ret
    /\ Log(Call("setState", state, to, 0))
    /\ UNCHANGED ext
    /\ UNCHANGED <<persistenceSeqno, now, threads, dmQueueMutex>>

\* a replica acknowledges a seqno it received
SeqnoAcknowledged(replicaId, preparedSeqno) ==
    /\ state = "active"
    /\ preparedSeqno <= getHighSeqno
    /\ Finish(Returned(seqnoAcknowledged(St, replicaId, preparedSeqno)),
              Call("seqnoAcknowledged", "", replicaId, preparedSeqno))

\* the flusher persisted the items up to seqno
SetPersistenceSeqno(seqno) ==
    /\ persistenceSeqno < seqno
    /\ seqno <= getHighSeqno
    /\ persistenceSeqno' = seqno
    /\ result' = "SUCCESS"
    /\ Log(Call("setPersistenceSeqno", "", "", seqno))
    /\ UNCHANGED ext
    /\ UNCHANGED <<state, topology, ht, ckpt, tracked, pos, hps, now,
                   notified, threads, dmQueueMutex>>

\* VBucket::commit, called from outside the durability monitor: no commit
\* seqno, no cookie
Commit(key, pendingSeqno) ==
    /\ getHighSeqno < SeqnoCap
    /\ Finish(commit(St, key, pendingSeqno, 0, NoCookie),
              Call("commit", key, "", pendingSeqno))

\* VBucket::abort, called from outside the durability monitor
Abort(key, prepareSeqno) ==
    /\ getHighSeqno < SeqnoCap
    /\ Finish(abort(St, key, prepareSeqno, 0, NoCookie),
              Call("abort", key, "", prepareSeqno))

NotifyPersistenceToDurabilityMonitor ==
    Finish(Returned(notifyPersistenceToDurabilityMonitor(St)),
           Call("notifyPersistenceToDurabilityMonitor", "", "", 0))

ProcessDurabilityTimeout(asOf) ==
    Finish(Returned(processDurabilityTimeout(St, asOf)),
           Call("processDurabilityTimeout", "", "", asOf))

\* the steady clock advances
Tick ==
    /\ now < MaxTime
    /\ now' = now + 1
    /\ result' = "SUCCESS"
    /\ UNCHANGED <<state, topology, ht, ckpt, tracked, pos, hps,
                   persistenceSeqno, notified, threads, dmQueueMutex,
                   lastCall, ext>>

\* the durable writes that never expire, and the normal mutation
Untimed == [level : Levels, timeout : {Infinity}] \cup {NoDur}

Writes(durs) ==
    \E key \in Keys, dur \in durs, hasMemory \in BOOLEAN :
        \/ Set(key, dur, hasMemory)
        \/ Add(key, dur, hasMemory)
        \/ Replace(key, dur, hasMemory)
        \/ DeleteItem(key, dur)

Acks == \E n \in Replicas, s \in 1..SeqnoCap : SeqnoAcknowledged(n, s)

Persistence ==
    \/ \E s \in 1..SeqnoCap : SetPersistenceSeqno(s)
    \/ NotifyPersistenceToDurabilityMonitor

Replication(durs) ==
    \E key \in Keys, seqno \in 1..MaxSeqno, dur \in durs, hasMemory \in BOOLEAN :
        SetWithMeta(key, seqno, dur, hasMemory)

Next ==
    \/ Writes(Untimed)
    \/ Replication(Untimed)
    \/ Acks
    \/ Persistence

Spec == Init /\ [][Next]_vars

(***************************************************************************)
(* The active vBucket with sync-write timeouts: the clock and the timeout  *)
(* task, under the topology [[A,B]].                                       *)
(***************************************************************************)
InitTimeout == Construct(<< <<"A", "B">> >>, Keys) /\ lastCall = NoLog /\ ExtInit

\* durable writes with and without a timeout, and the normal mutation
Timed == [level : {"Majority", "PersistToMajority"}, timeout : Timeouts]
             \cup {NoDur}

TimeoutTask ==
    \E asOf \in 0..(MaxTime + MaxTimeout + 1) : ProcessDurabilityTimeout(asOf)

NextTimeout ==
    \/ Writes(Timed)
    \/ Acks
    \/ Persistence
    \/ TimeoutTask
    \/ Tick

SpecTimeout == InitTimeout /\ [][NextTimeout]_vars

(***************************************************************************)
(* The same, with VBucket::commit and VBucket::abort also called from      *)
(* outside the durability monitor.                                         *)
(***************************************************************************)
\* the caller names the seqno of the value it finds at the key
ExplicitCalls ==
    \E key \in Keys :
        \/ Commit(key, findForWrite(ht, key).bySeqno)
        \/ Abort(key, findForWrite(ht, key).bySeqno)

\* durable writes that expire after a millisecond or never
Expiring == [level : {"Majority", "PersistToMajority"},
             timeout : {[kind |-> "Ms", ms |-> 1], Infinity}] \cup {NoDur}

NextExplicit ==
    \/ Writes(Expiring)
    \/ Acks
    \/ Persistence
    \/ TimeoutTask
    \/ ExplicitCalls

SpecExplicit == InitTimeout /\ [][NextExplicit]_vars

(***************************************************************************)
(* Two front-end threads in VBucket::set on different keys, each step of   *)
(* VBucket::queueItem on its own: the lock, the checkpoint, the monitor.   *)
(* Acks of the replica commit in between.  Topology [[A,B]].               *)
(***************************************************************************)
CookieOf(t) == (IF t = "t1" THEN 10 ELSE 20) + getHighSeqno + 1

\* the seqnos the threads inside set still need
InFlight ==
    LET Need(t) ==
            CASE threads[t].pc \in {"lock", "queueDirty"}
                     -> IF isPending(threads[t].item) THEN 2 ELSE 1
              [] threads[t].pc = "addSyncWrite" -> 1
              [] OTHER -> 0
    IN Need("t1") + Need("t2")

\* VBucket::set up to the call of queueItem: the durability check, the
\* lookup under the bucket lock, the new item
SetBegin(t, dur) ==
    LET itm == WriteItem(KeyOf[t], FALSE, dur)
        v == findForWrite(ht, KeyOf[t])
    IN /\ threads[t].pc = "idle"
       /\ SeqnosLeft(InFlight + SeqnosNeeded(dur))
       /\ IF isPending(itm) /\ ~isDurabilityPossible(topology)
          THEN /\ result' = "DURABILITY_IMPOSSIBLE"
               /\ UNCHANGED threads
          ELSE IF v.committed = "Pending"
               THEN /\ result' = "SYNC_WRITE_IN_PROGRESS"
                    /\ UNCHANGED threads
               ELSE /\ threads' = [threads EXCEPT ![t] =
                                      [pc |-> "lock", item |-> itm,
                                       cookie |-> CookieOf(t)]]
                    /\ UNCHANGED result
       /\ UNCHANGED <<state, topology, ht, ckpt, tracked, pos, hps,
                      persistenceSeqno, now, notified, dmQueueMutex,
                      lastCall, ext>>

\* VBucket::queueItem: durLock.lock() for a pending item
QueueItemLock(t) ==
    /\ threads[t].pc = "lock"
    /\ durLock_lock(dmQueueMutex, threads[t].item)
    /\ dmQueueMutex' = IF isPending(threads[t].item) THEN t ELSE dmQueueMutex
    /\ threads' = [threads EXCEPT ![t].pc = "queueDirty"]
    /\ UNCHANGED <<state, topology, ht, ckpt, tracked, pos, hps,
                   persistenceSeqno, now, notified, result, lastCall, ext>>

\* VBucket::queueItem: checkpointManager->queueDirty; a normal mutation
\* returns from here, and set stores the seqno and returns
QueueItemQueueDirty(t) ==
    LET ck == queueItem_queueDirty(ckpt, threads[t].item, TRUE)
        qi == [threads[t].item EXCEPT !.bySeqno = HighSeqnoOf(ck)]
    IN /\ threads[t].pc = "queueDirty"
       /\ ckpt' = ck
       /\ IF isPending(qi)
          THEN /\ threads' = [threads EXCEPT ![t].pc = "addSyncWrite",
                                             ![t].item = qi]
               /\ UNCHANGED <<ht, result>>
          ELSE /\ threads' = [threads EXCEPT ![t] = Idle]
               /\ ht' = [ht EXCEPT ![qi.key].c =
                                       StoredValueOf(qi, qi.bySeqno)]
               /\ result' = "SUCCESS"
       /\ UNCHANGED <<state, topology, tracked, pos, hps, persistenceSeqno,
                      now, notified, dmQueueMutex, lastCall, ext>>

\* VBucket::queueItem: addSyncWrite, then the lock is released on return
\* and set stores the seqno and returns EWOULDBLOCK
QueueItemAddSyncWrite(t) ==
    LET qi == threads[t].item
        st == queueItem_addSyncWrite(St, qi, threads[t].cookie)
    IN /\ threads[t].pc = "addSyncWrite"
       /\ tracked' = st.tracked
       /\ hps' = st.hps
       /\ dmQueueMutex' = IF dmQueueMutex = t THEN "free" ELSE dmQueueMutex
       /\ threads' = [threads EXCEPT ![t] = Idle]
       /\ ht' = [ht EXCEPT ![qi.key].p = StoredValueOf(qi, qi.bySeqno)]
       /\ result' = "EWOULDBLOCK"
       /\ UNCHANGED <<state, topology, ckpt, pos, persistenceSeqno, now,
                      notified, lastCall, ext>>

InitConc == Construct(<< <<"A", "B">> >>, Keys) /\ lastCall = NoLog /\ ExtInit

\* a Majority write that never expires, and the normal mutation
MajorityOrNone == {[level |-> "Majority", timeout |-> Infinity], NoDur}

NextConc ==
    \/ \E t \in Threads, dur \in MajorityOrNone : SetBegin(t, dur)
    \/ \E t \in Threads : QueueItemLock(t)
    \/ \E t \in Threads : QueueItemQueueDirty(t)
    \/ \E t \in Threads : QueueItemAddSyncWrite(t)
    \/ Acks
    \/ ExplicitCalls

SpecConc == InitConc /\ [][NextConc]_vars

(***************************************************************************)
(* The persist-to-majority fence: three keys under the topology [[A,B,C]], *)
(* durable sets at the levels Majority and PersistToMajority, the acks of  *)
(* B and C, and the local persistence.                                     *)
(***************************************************************************)
InitFence ==
    Construct(<< <<"A", "B", "C">> >>, FenceKeys) /\ lastCall = NoLog
    /\ ExtInit

FenceDurs == [level : {"Majority", "PersistToMajority"}, timeout : {Infinity}]

\* the keys are written for the first time in this order
FenceKeyOrder == <<"k1", "k2", "k3">>

FenceWrites ==
    \E i \in DOMAIN FenceKeyOrder, dur \in FenceDurs :
        /\ \A j \in 1..(i - 1) : ht[FenceKeyOrder[j]] # NoEntry
        /\ Set(FenceKeyOrder[i], dur, TRUE)

NextFence ==
    \/ FenceWrites
    \/ Acks
    \/ Persistence

SpecFence == InitFence /\ [][NextFence]_vars

(***************************************************************************)
(* The acks of the replicas, of a node outside the topology included, with *)
(* the log of calls kept.                                                  *)
(***************************************************************************)
InitAck ==
    /\ \E topo \in {<< <<"A", "B">> >>, << <<"A", "B", "C">> >>} :
          Construct(topo, Keys)
    /\ lastCall = NoCall
    /\ ExtInit

AckWrites ==
    \E key \in Keys, dur \in MajorityOrNone, hasMemory \in BOOLEAN :
        Set(key, dur, hasMemory)

AcksOfAnyNode ==
    \E n \in Replicas \cup {Unknown}, s \in 1..SeqnoCap :
        SeqnoAcknowledged(n, s)

NextAck ==
    \/ AckWrites
    \/ AcksOfAnyNode

SpecAck == InitAck /\ [][NextAck]_vars

(***************************************************************************)
(* The active alone: one chain that holds only the active node.  No ack is *)
(* ever received; the flusher persists and notifies the monitor again and  *)
(* again.                                                                  *)
(***************************************************************************)
InitSolo == Construct(<< <<"A">> >>, Keys) /\ lastCall = NoLog /\ ExtInit

SoloWrites ==
    \E key \in Keys, dur \in MajorityOrNone :
        Set(key, dur, TRUE) \/ DeleteItem(key, dur)

NextSolo ==
    \/ SoloWrites
    \/ Persistence

SpecSolo ==
    /\ InitSolo
    /\ [][NextSolo]_vars
    /\ WF_vars(NotifyPersistenceToDurabilityMonitor)

(***************************************************************************)
(* The calls of the front end and of VBucket::commit and VBucket::abort    *)
(* with any prepare seqno, the log of calls kept.  Topology [[A,B]].       *)
(***************************************************************************)
InitCalls == Construct(<< <<"A", "B">> >>, Keys) /\ lastCall = NoCall /\ ExtInit

\* the caller names any prepare seqno
ExplicitCallsAt ==
    \E key \in Keys, seqno \in 1..MaxSeqno :
        \/ Commit(key, seqno)
        \/ Abort(key, seqno)

NextCalls ==
    \/ Writes(MajorityOrNone)
    \/ Acks
    \/ ExplicitCallsAt

SpecCalls == InitCalls /\ [][NextCalls]_vars

(***************************************************************************)
(* The writes that meet a Pending value: an active with one replica, or a  *)
(* replica fed by the replication stream; prepares are resolved by acks    *)
(* and by explicit commits and aborts.                                     *)
(***************************************************************************)
InitPending ==
    /\ Construct(<< <<"A", "B">> >>, Keys) \/ ConstructReplica
    /\ lastCall = NoCall
    /\ ExtInit

WithMeta ==
    \E key \in Keys, seqno \in 1..MaxSeqno, dur \in MajorityOrNone,
       hasMemory \in BOOLEAN :
        \/ SetWithMeta(key, seqno, dur, hasMemory)
        \/ DeleteWithMeta(key)

NextPending ==
    \/ Writes(MajorityOrNone)
    \/ WithMeta
    \/ Acks
    \/ ExplicitCallsAt

SpecPending == InitPending /\ [][NextPending]_vars

(***************************************************************************)
(* State transitions of a vBucket of three keys: client writes and acks    *)
(* while it is active, the replication stream in seqno order while it is   *)
(* replica or pending, commits and aborts of the Pending values, and       *)
(* setState between any two states.                                        *)
(***************************************************************************)
InitState == Construct(<< <<"A", "B">> >>, FenceKeys) /\ lastCall = NoLog /\ ExtInit

VBStates == {"active", "replica", "pending", "dead"}

MajorityOnly == {[level |-> "Majority", timeout |-> Infinity]}

\* the keys are written in the order k1, k2, k3: a key is first written
\* once the keys before it have been
StateWrites ==
    \E i \in 1..Len(FenceKeyOrder), dur \in MajorityOnly :
        /\ \A j \in 1..(i - 1) : ht[FenceKeyOrder[j]] # NoEntry
        /\ \/ Set(FenceKeyOrder[i], dur, TRUE)
           \/ SetWithMeta(FenceKeyOrder[i], getHighSeqno + 1, dur, TRUE)

StateResolutions ==
    \E key \in FenceKeys :
        /\ PendingAt(key)
        /\ \/ Commit(key, ht[key].p.bySeqno)
           \/ Abort(key, ht[key].p.bySeqno)

\* the replica acknowledges all it has received
StateAcks == getHighSeqno > 0 /\ SeqnoAcknowledged("B", getHighSeqno)

\* what setState is given as meta: nothing, or a topology
StateMetas == {Null, << <<"A", "B">> >>}

StateChanges == \E to \in VBStates, meta \in StateMetas : SetState(to, meta)

NextState ==
    \/ StateWrites
    \/ StateResolutions
    \/ StateAcks
    \/ StateChanges

SpecState == InitState /\ [][NextState]_vars

(***************************************************************************)
(* The topologies setState may be handed: every array of at most two       *)
(* chains of at most MaxChainLen nodes, strings, nulls or numbers; chains  *)
(* of four and of five nodes; three chains; values that are no arrays.     *)
(***************************************************************************)
MaxChainLen == 2

SeqsOf(S, n) == UNION {[1..k -> S] : k \in 0..n}

JsonNodes == {JStr("A"), JStr("B"), JNull, JNum}

JsonChains ==
    {JArr(c) : c \in SeqsOf(JsonNodes, MaxChainLen)}
        \cup {JArr(<<JStr("A"), JNull, JStr("B")>>),
              JArr(<<JStr("A"), JStr("B"), JStr("C"), JNull>>),
              JArr(<<JStr("A"), JStr("B"), JNull, JStr("B")>>),
              JArr(<<JStr("A"), JStr("B"), JStr("C"), JStr("D"), JStr("E")>>),
              JObj}

JsonTopologies ==
    {JArr(t) : t \in SeqsOf(JsonChains, 2)}
        \cup {JArr(<<JArr(<<JStr("A"), JStr("B")>>),
                     JArr(<<JStr("A"), JStr("C")>>),
                     JArr(<<JStr("A"), JNull>>)>>),
              JObj, JNull}

InitTopology ==
    /\ Construct(<< <<"A", "B">> >>, Keys) \/ ConstructReplica
    /\ lastCall = NoCall
    /\ request \in JsonTopologies
    /\ ExtInitExcept("request")

NextTopology == \E to \in {"active", "replica"} : SetStateMeta(to, request)

SpecTopology == InitTopology /\ [][NextTopology]_vars

(***************************************************************************)
(* A replica fed by the replication stream: prepares of every timeout, the *)
(* unresolved bucket default among them, and normal mutations.             *)
(***************************************************************************)
InitPassive == ConstructReplica /\ lastCall = NoCall /\ ExtInit

PassiveDurs ==
    [level : {"Majority", "PersistToMajority"},
     timeout : {Infinity, BucketDefault, [kind |-> "Ms", ms |-> 1]}]
        \cup {NoDur}

NextPassive ==
    \/ Replication(PassiveDurs)
    \/ Persistence

SpecPassive == InitPassive /\ [][NextPassive]_vars

(***************************************************************************)
(* The hash table with revision seqnos and temporary values: what set,     *)
(* add, replace, deleteItem, expiry, getAndUpdateTtl, getMetaData, the     *)
(* background fetch, the flusher and the item pager do to the StoredValue  *)
(* of a key, to its revSeqno and to the items queued for persistence.      *)
(* Writes here carry no durability requirements.                           *)
(***************************************************************************)
\* the items that may be queued in one run
MaxVersions == 4

EvictionPolicies == {"Value", "Full"}

\* no StoredValue in the hash table; no document on disk
NoValue == [there |-> FALSE, temp |-> "None", deleted |-> FALSE,
            revSeqno |-> 0, cas |-> 0]
NoDoc == [there |-> FALSE, deleted |-> FALSE, revSeqno |-> 0, cas |-> 0]

\* VBucket::VBucket with the eviction policy: an empty hash table, nothing
\* queued, nothing on disk
NewStore(policy) ==
    [eviction |-> policy,
     ht |-> [k \in Keys |-> NoValue],
     maxDeletedRevSeqno |-> 0,
     ckpt |-> <<>>,
     toFlush |-> <<>>,
     disk |-> [k \in Keys |-> NoDoc],
     maxCas |-> 0,
     versions |-> [k \in Keys |-> <<>>],
     last |-> [op |-> "none", key |-> "", ret |-> ""]]

Ret(s, ret) == [s |-> s, ret |-> ret]

isTempItem(v) == v.there /\ v.temp # "None"
isTempInitialItem(v) == v.there /\ v.temp = "Init"
isTempDeletedItem(v) == v.there /\ v.temp = "Deleted"
isTempNonExistentItem(v) == v.there /\ v.temp = "NonExistent"

\* StoredValue::toItem
toItem(key, v) ==
    [key |-> key, revSeqno |-> v.revSeqno, deleted |-> v.deleted,
     temp |-> v.temp, cas |-> v.cas]
\* the Item of a client write: DEFAULT_REV_SEQ_NUM, no CAS yet
NewItem(key, deleted) ==
    [key |-> key, revSeqno |-> 1, deleted |-> deleted, temp |-> "None",
     cas |-> 0]

\* VBucket::queueDirty: the item made of the value is queued; the value takes
\* the CAS and the seqno the checkpoint generated
queueDirty(s, key) ==
    LET cas == s.maxCas + 1
        qi == [toItem(key, s.ht[key]) EXCEPT !.cas = cas]
    IN [s EXCEPT !.ckpt = Append(@, qi),
                 !.maxCas = cas,
                 !.ht[key].cas = cas,
                 !.ht[key].temp = "None",
                 !.versions[key] = Append(@, qi.revSeqno)]

updateRevSeqNoOfNewStoredValue_FromOne(s, v) ==
    [v EXCEPT !.revSeqno = IF isTempItem(v) THEN 0 ELSE 1]

\* VBucket::updateRevSeqNoOfNewStoredValue
updateRevSeqNoOfNewStoredValue(s, v) ==
    LET seqno == s.maxDeletedRevSeqno
    IN [v EXCEPT !.revSeqno = IF isTempItem(v) THEN seqno ELSE seqno + 1]

\* HashTable::updateMaxDeletedRevSeqno
updateMaxDeletedRevSeqno(s, seqno) ==
    [s EXCEPT !.maxDeletedRevSeqno = IF seqno > @ THEN seqno ELSE @]

\* HashTable::unlocked_updateStoredValue: the value becomes the item
unlocked_updateStoredValue(s, key, itm) ==
    [s EXCEPT !.ht[key] = [there |-> TRUE, temp |-> "None",
                           deleted |-> itm.deleted,
                           revSeqno |-> itm.revSeqno, cas |-> itm.cas]]

\* EPVBucket::updateStoredValue
updateStoredValueRev(s, key, itm) ==
    queueDirty(unlocked_updateStoredValue(s, key, itm), key)

\* EPVBucket::addNewStoredValue with GenerateRevSeqno::Yes
addNewStoredValueRev(s, key, itm) ==
    LET v == [there |-> TRUE, temp |-> "None", deleted |-> itm.deleted,
              revSeqno |-> itm.revSeqno, cas |-> 0]
    IN queueDirty(
           [s EXCEPT !.ht[key] = updateRevSeqNoOfNewStoredValue(s, v)], key)

\* EPVBucket::softDeleteStoredValue of a committed value
softDeleteStoredValueRev(s, key) ==
    queueDirty([s EXCEPT !.ht[key].deleted = TRUE], key)

\* VBucket::deleteStoredValue
deleteStoredValue(s, key) == [s EXCEPT !.ht[key] = NoValue]

\* HashTable::cleanupIfTemporaryItem
cleanupIfTemporaryItem(s, key) ==
    IF isTempItem(s.ht[key]) THEN deleteStoredValue(s, key) ELSE s

addTempStoredValue_Queued(s, key) ==
    LET v == [there |-> TRUE, temp |-> "Init", deleted |-> FALSE,
              revSeqno |-> 1, cas |-> 0]
    IN queueDirty(
           [s EXCEPT !.ht[key] = updateRevSeqNoOfNewStoredValue(s, v)], key)

\* VBucket::addTempStoredValue: a temp initial value, in the hash table only
addTempStoredValue(s, key) ==
    LET v == [there |-> TRUE, temp |-> "Init", deleted |-> FALSE,
              revSeqno |-> 1, cas |-> 0]
    IN [s EXCEPT !.ht[key] = updateRevSeqNoOfNewStoredValue(s, v)]

\* EPVBucket::addTempItemAndBGFetch
addTempItemAndBGFetch(s, key) == Ret(addTempStoredValue(s, key), "EWOULDBLOCK")

\* VBucket::isLogicallyNonExistent, the collection being alive
isLogicallyNonExistent(v) ==
    v.deleted \/ isTempDeletedItem(v) \/ isTempNonExistentItem(v)

\* VBucket::processSet of a new value, cas: the client gave the CAS of the
\* live value; a temporary or deleted value has another CAS
processSetRev(s, key, cas, maybeKeyExists, expired) ==
    LET v == s.ht[key]
        itm == [NewItem(key, FALSE) EXCEPT !.revSeqno = v.revSeqno + 1]
    IN IF s.eviction = "Full" /\ maybeKeyExists /\ cas
          /\ (~v.there \/ isTempInitialItem(v))
       THEN Ret(s, "NeedBgFetch")
       ELSE IF v.there /\ expired /\ cas
       THEN Ret(s, "NotFound")
       ELSE IF v.there
       THEN IF cas /\ isTempNonExistentItem(v) THEN Ret(s, "NotFound")
            ELSE IF cas /\ (isTempDeletedItem(v) \/ v.deleted)
            THEN Ret(s, "NotFound")
            ELSE IF cas /\ isTempItem(v) THEN Ret(s, "InvalidCas")
            ELSE Ret(updateStoredValueRev(s, key, itm), "WasClean")
       ELSE IF cas
       THEN Ret(s, "NotFound")
       ELSE Ret(addNewStoredValueRev(s, key, NewItem(key, FALSE)), "WasClean")

\* the Bloom filter is asked only where the code asks it
maybeKeyExistsInFilter(asked, maybe) == IF asked THEN maybe ELSE TRUE

\* VBucket::set
setRev(s, key, cas, maybe, expired) ==
    LET v == s.ht[key]
        maybeKeyExists ==
            maybeKeyExistsInFilter((~v.there \/ isTempInitialItem(v))
                                   /\ s.eviction = "Full" /\ cas, maybe)
        r == processSetRev(s, key, cas, maybeKeyExists, expired)
    IN CASE r.ret = "NeedBgFetch" ->
                IF v.there THEN Ret(s, "EWOULDBLOCK")
                ELSE addTempItemAndBGFetch(s, key)
         [] r.ret = "NotFound" -> Ret(r.s, "KEY_ENOENT")
         [] r.ret = "InvalidCas" -> Ret(r.s, "KEY_EEXISTS")
         [] OTHER -> Ret(r.s, "SUCCESS")

\* VBucket::processAdd
processAddRev(s, key, maybeKeyExists, expired) ==
    LET v == s.ht[key]
        rev1 == IF isTempDeletedItem(v) THEN v.revSeqno + 1
                ELSE s.maxDeletedRevSeqno + 1
        rev2 == IF ~isTempItem(v) THEN v.revSeqno + 1 ELSE rev1
        itm == [NewItem(key, FALSE) EXCEPT !.revSeqno = rev2]
    IN IF v.there /\ ~v.deleted /\ ~expired /\ ~isTempItem(v)
       THEN Ret(s, "Exists")
       ELSE IF v.there
       THEN IF isTempInitialItem(v) /\ s.eviction = "Full" /\ maybeKeyExists
            THEN Ret(s, "BgFetch")
            ELSE Ret(updateStoredValueRev(s, key, itm),
                     IF v.deleted \/ expired THEN "UnDel" ELSE "Success")
       ELSE IF s.eviction = "Full" /\ maybeKeyExists
       THEN Ret(s, "AddTmpAndBgFetch")
       ELSE Ret(addNewStoredValueRev(s, key, NewItem(key, FALSE)), "Success")

\* VBucket::add
addRev(s, key, maybe, expired) ==
    LET v == s.ht[key]
        maybeKeyExists ==
            maybeKeyExistsInFilter((~v.there \/ isTempInitialItem(v))
                                   /\ s.eviction = "Full", maybe)
        r == processAddRev(s, key, maybeKeyExists, expired)
    IN CASE r.ret = "Exists" -> Ret(r.s, "NOT_STORED")
         [] r.ret = "AddTmpAndBgFetch" -> addTempItemAndBGFetch(s, key)
         [] r.ret = "BgFetch" -> Ret(r.s, "EWOULDBLOCK")
         [] OTHER -> Ret(r.s, "SUCCESS")

\* VBucket::replace
replaceRev(s, key, maybe, expired) ==
    LET v == s.ht[key]
        r == processSetRev(s, key, FALSE, TRUE, expired)
    IN IF v.there
       THEN IF isLogicallyNonExistent(v)
            THEN Ret(cleanupIfTemporaryItem(s, key), "KEY_ENOENT")
            ELSE IF s.eviction = "Full" /\ isTempInitialItem(v)
            THEN Ret(s, "EWOULDBLOCK")
            ELSE Ret(r.s, "SUCCESS")
       ELSE IF s.eviction = "Value"
       THEN Ret(s, "KEY_ENOENT")
       ELSE IF maybe
       THEN addTempItemAndBGFetch(s, key)
       ELSE Ret(s, "KEY_ENOENT")

\* VBucket::processSoftDelete, no CAS, no lock
processSoftDeleteRev(s, key, revSeqno) ==
    IF isTempInitialItem(s.ht[key]) /\ s.eviction = "Full"
    THEN Ret(s, "NeedBgFetch")
    ELSE LET s1 == [s EXCEPT !.ht[key].revSeqno = revSeqno]
             s2 == softDeleteStoredValueRev(s1, key)
         IN Ret(updateMaxDeletedRevSeqno(s2, revSeqno), "WasClean")

\* VBucket::processExpiredItem
processExpiredItem(s, key) ==
    IF isTempInitialItem(s.ht[key]) /\ s.eviction = "Full"
    THEN Ret(queueDirty(s, key), "NeedBgFetch")
    ELSE LET s1 == [s EXCEPT !.ht[key].revSeqno = @ + 1]
             s2 == softDeleteStoredValueRev(s1, key)
         IN Ret(updateMaxDeletedRevSeqno(s2, s2.ht[key].revSeqno + 1),
                "NotFound")

\* VBucket::deleteItem
deleteItemRev(s, key, maybe, expired) ==
    LET v == s.ht[key]
    IN IF ~v.there \/ v.deleted \/ isTempItem(v)
       THEN IF s.eviction = "Value"
            THEN Ret(s, "KEY_ENOENT")
            ELSE IF ~v.there
            THEN IF maybe THEN addTempItemAndBGFetch(s, key)
                 ELSE Ret(s, "KEY_ENOENT")
            ELSE IF isTempInitialItem(v)
            THEN Ret(s, "EWOULDBLOCK")
            ELSE IF isTempNonExistentItem(v) \/ isTempDeletedItem(v)
            THEN Ret(deleteStoredValue(s, key), "KEY_ENOENT")
            ELSE Ret(s, "KEY_ENOENT")
       ELSE IF expired
       THEN Ret(processExpiredItem(s, key).s, "KEY_ENOENT")
       ELSE Ret(processSoftDeleteRev(s, key, v.revSeqno + 1).s, "SUCCESS")

\* VBucket::fetchValidValue on an active vBucket with QueueExpired::Yes
fetchValidValue(s, key, expired) ==
    LET v == s.ht[key]
    IN IF v.there /\ ~v.deleted /\ ~isTempItem(v) /\ expired
       THEN processExpiredItem(s, key).s
       ELSE s

\* VBucket::processGetAndUpdateTtl; a temporary value is not resident
processGetAndUpdateTtl(s, key, maybe, exptime_mutated) ==
    LET v == s.ht[key]
        s1 == [s EXCEPT !.ht[key].revSeqno = @ + 1]
    IN IF v.there
       THEN IF isLogicallyNonExistent(v)
            THEN Ret(cleanupIfTemporaryItem(s, key), "NotFound")
            ELSE IF isTempItem(v)
            THEN Ret(s, "NeedBgFetch")
            ELSE IF exptime_mutated
            THEN Ret(updateStoredValueRev(s1, key, toItem(key, s1.ht[key])),
                     "WasClean")
            ELSE Ret(s, "WasClean")
       ELSE IF s.eviction = "Value"
       THEN Ret(s, "NotFound")
       ELSE IF maybe
       THEN Ret(s, "NeedBgFetch")
       ELSE Ret(s, "NotFound")

\* VBucket::getAndUpdateTtl
getAndUpdateTtl(s, key, maybe, expired, exptime_mutated) ==
    LET s1 == fetchValidValue(s, key, expired)
        r == processGetAndUpdateTtl(s1, key, maybe, exptime_mutated)
    IN IF r.ret = "NeedBgFetch"
       THEN IF s1.ht[key].there THEN Ret(r.s, "EWOULDBLOCK")
            ELSE addTempItemAndBGFetch(r.s, key)
       ELSE Ret(r.s, IF r.ret = "NotFound" THEN "KEY_ENOENT" ELSE "SUCCESS")

\* VBucket::deleteExpiredItem: the pager or the compactor found it expired
deleteExpiredItem(s, key, it, maybe) ==
    LET v == s.ht[key]
        s1 == addTempStoredValue(s, key)
        s2 == [s1 EXCEPT !.ht[key].temp = "Deleted",
                         !.ht[key].revSeqno = it.revSeqno]
    IN IF v.there
       THEN IF v.cas # it.cas
            THEN s
            ELSE IF isTempNonExistentItem(v) \/ isTempDeletedItem(v)
            THEN deleteStoredValue(s, key)
            ELSE IF ~v.deleted
            THEN processExpiredItem(
                     unlocked_updateStoredValue(s, key, it), key).s
            ELSE s
       ELSE IF s.eviction = "Full" /\ maybe
       THEN processExpiredItem(unlocked_updateStoredValue(s2, key, it), key).s
       ELSE s

\* VBucket::getMetaData
getMetaData(s, key, maybe) ==
    LET v == s.ht[key]
    IN IF v.there
       THEN IF isTempInitialItem(v) THEN Ret(s, "EWOULDBLOCK")
            ELSE IF isTempNonExistentItem(v) THEN Ret(s, "KEY_ENOENT")
            ELSE Ret(s, "SUCCESS")
       ELSE IF maybe
       THEN addTempItemAndBGFetch(s, key)
       ELSE Ret(s, "KEY_ENOENT")

\* EPVBucket::completeBGFetchForSingleItem: the temp initial value learns what
\* the disk holds
completeBGFetchForSingleItem(s, key) ==
    LET v == s.ht[key]
        doc == s.disk[key]
    IN IF ~isTempInitialItem(v)
       THEN s
       ELSE IF ~doc.there
       THEN [s EXCEPT !.ht[key].temp = "NonExistent"]
       ELSE IF doc.deleted
       THEN [s EXCEPT !.ht[key] = [there |-> TRUE, temp |-> "Deleted",
                                   deleted |-> FALSE,
                                   revSeqno |-> doc.revSeqno, cas |-> doc.cas]]
       ELSE [s EXCEPT !.ht[key] = [there |-> TRUE, temp |-> "None",
                                   deleted |-> FALSE,
                                   revSeqno |-> doc.revSeqno, cas |-> doc.cas]]

\* VBucket::getItemsToPersist: the reject queue and the backfill queue being
\* empty, the items of the checkpoint manager
getItemsToPersist(s) == [s EXCEPT !.toFlush = s.ckpt, !.ckpt = <<>>]

\* VBucket::deletedOnDiskCbk
deletedOnDiskCbk(s, queuedItem) ==
    LET v == s.ht[queuedItem.key]
    IN IF v.there /\ v.deleted /\ queuedItem.revSeqno = v.revSeqno
       THEN deleteStoredValue(s, queuedItem.key)
       ELSE s

\* the flusher writes the oldest item it holds and runs the callback
flushOne(s) ==
    LET qi == Head(s.toFlush)
        s1 == [s EXCEPT !.toFlush = Tail(@),
                        !.disk[qi.key] = [there |-> TRUE,
                                          deleted |-> qi.deleted,
                                          revSeqno |-> qi.revSeqno,
                                          cas |-> qi.cas]]
    IN IF qi.deleted THEN deletedOnDiskCbk(s1, qi) ELSE s1

\* the item pager of a full-eviction bucket drops a clean value whole
isEligibleForEviction(s, key) ==
    LET v == s.ht[key]
    IN /\ s.eviction = "Full"
       /\ v.there /\ ~isTempItem(v) /\ ~v.deleted
       /\ s.disk[key].there /\ s.disk[key].cas = v.cas
unlocked_ejectItem(s, key) == [s EXCEPT !.ht[key] = NoValue]

(***************************************************************************)
(* The operations as steps.                                                *)
(***************************************************************************)
\* the Bloom filter has no false negatives: a key on disk may exist
BloomAnswers(key) == {m \in BOOLEAN : store.disk[key].there => m}
\* the clock may have passed the expiry time of a live value only
ExpiredAnswers(key) ==
    LET v == store.ht[key]
    IN {e \in BOOLEAN : e => (v.there /\ ~v.deleted /\ ~isTempItem(v))}
MayQueue == store.maxCas < MaxVersions

StoreStep(op, key, r) ==
    /\ store' = [r.s EXCEPT !.last = [op |-> op, key |-> key, ret |-> r.ret]]
    /\ FrameExcept("store")

SetRev(key, cas) ==
    /\ MayQueue
    /\ \E m \in BloomAnswers(key), e \in ExpiredAnswers(key) :
           StoreStep("set", key, setRev(store, key, cas, m, e))
AddRev(key) ==
    /\ MayQueue
    /\ \E m \in BloomAnswers(key), e \in ExpiredAnswers(key) :
           StoreStep("add", key, addRev(store, key, m, e))
ReplaceRev(key) ==
    /\ MayQueue
    /\ \E m \in BloomAnswers(key), e \in ExpiredAnswers(key) :
           StoreStep("replace", key, replaceRev(store, key, m, e))
DeleteItemRev(key) ==
    /\ MayQueue
    /\ \E m \in BloomAnswers(key), e \in ExpiredAnswers(key) :
           StoreStep("deleteItem", key, deleteItemRev(store, key, m, e))
GetAndUpdateTtl(key) ==
    /\ MayQueue
    /\ \E m \in BloomAnswers(key), e \in ExpiredAnswers(key),
          x \in BOOLEAN :
           StoreStep("getAndUpdateTtl", key,
                     getAndUpdateTtl(store, key, m, e, x))
\* the expiry pager visits the hash table, the compactor the disk
ExpiredItems(key) ==
    LET v == store.ht[key]
        doc == store.disk[key]
    IN {toItem(key, v) : x \in {y \in {1} : v.there /\ ~v.deleted
                                            /\ ~isTempItem(v)}}
       \cup {[key |-> key, revSeqno |-> doc.revSeqno, deleted |-> FALSE,
              temp |-> "None", cas |-> doc.cas] :
                 x \in {y \in {1} : doc.there /\ ~doc.deleted}}
DeleteExpiredItem(key) ==
    /\ MayQueue
    /\ \E it \in ExpiredItems(key), m \in BloomAnswers(key) :
           StoreStep("deleteExpiredItem", key,
                     Ret(deleteExpiredItem(store, key, it, m), ""))
GetMetaData(key) ==
    \E m \in BloomAnswers(key) :
        StoreStep("getMetaData", key, getMetaData(store, key, m))
CompleteBGFetch(key) ==
    /\ isTempInitialItem(store.ht[key])
    /\ StoreStep("completeBGFetch", key,
                 Ret(completeBGFetchForSingleItem(store, key), ""))
GetItemsToPersist ==
    /\ store.toFlush = <<>>
    /\ store.ckpt # <<>>
    /\ StoreStep("getItemsToPersist", "", Ret(getItemsToPersist(store), ""))
FlushOne ==
    /\ store.toFlush # <<>>
    /\ StoreStep("flush", Head(store.toFlush).key, Ret(flushOne(store), ""))
EjectItem(key) ==
    /\ isEligibleForEviction(store, key)
    /\ StoreStep("eject", key, Ret(unlocked_ejectItem(store, key), ""))

InitStore ==
    /\ Construct(<< <<"A", "B">> >>, Keys)
    /\ lastCall = NoLog
    /\ ExtInitExcept("store")
    /\ \E policy \in EvictionPolicies : store = NewStore(policy)

FrontEnd ==
    \E key \in Keys :
        \/ \E cas \in BOOLEAN : SetRev(key, cas)
        \/ AddRev(key)
        \/ ReplaceRev(key)
        \/ DeleteItemRev(key)
        \/ GetAndUpdateTtl(key)
        \/ GetMetaData(key)
Background ==
    \/ \E key \in Keys :
           \/ DeleteExpiredItem(key)
           \/ CompleteBGFetch(key)
           \/ EjectItem(key)
    \/ GetItemsToPersist
    \/ FlushOne

NextStore == FrontEnd \/ Background

SpecStore == InitStore /\ [][NextStore]_vars

(***************************************************************************)
(* Rollback of a replica: the failover table, the checkpoint manager, the  *)
(* persisted snapshot range, the rollback-items counter and the            *)
(* initial-disk-snapshot flag.                                             *)
(***************************************************************************)
\* the highest seqno a replica receives
MaxRollbackSeqno == 4
RollbackSeqnos == 0 .. MaxRollbackSeqno
\* the items all rollbacks of one run may discard, and the checkpoints opened
MaxRollbackItems == 5
MaxCheckpointId == 3

Entry(uuid, seqno) == [vb_uuid |-> uuid, by_seqno |-> seqno]
\* the failover tables of a replica: the head is the current branch, the
\* entry of seqno 0 the oldest
FailoverTables ==
    {<<Entry("U1", 0)>>}
    \cup {<<Entry("U2", a), Entry("U1", 0)>> : a \in 1 .. MaxRollbackSeqno}
    \cup {<<Entry("U3", b), Entry("U2", a), Entry("U1", 0)>> :
              a \in 1 .. 2, b \in 3 .. MaxRollbackSeqno}

\* VBucket::VBucket of a replica with its failover table
NewReplica(table) ==
    [failovers |-> table,
     items |-> <<>>,
     lastBySeqno |-> 0,
     openCheckpointId |-> 1,
     persisted_snapshot_start |-> 0,
     persisted_snapshot_end |-> 0,
     rollbackItemCount |-> 0,
     receivingInitialDiskSnapshot |-> FALSE,
     last |-> "none"]

\* what KVStore::rollback reports: the header it went back to
RollbackResults ==
    {r \in [highSeqno : 1 .. MaxRollbackSeqno, snapStartSeqno : RollbackSeqnos,
            snapEndSeqno : RollbackSeqnos] :
         r.snapStartSeqno <= r.highSeqno /\ r.highSeqno <= r.snapEndSeqno}

\* FailoverTable::pruneEntries
pruneEntries(table, seqno) == SelectSeq(table, LAMBDA e : e.by_seqno <= seqno)

\* CheckpointManager::clear on a replica: no item, the seqno, checkpoint 0
clear(r, seqno) ==
    [r EXCEPT !.items = <<>>, !.lastBySeqno = seqno, !.openCheckpointId = 0]

\* VBucket::setPersistedSnapshot
setPersistedSnapshot(r, start, end) ==
    [r EXCEPT !.persisted_snapshot_start = start,
              !.persisted_snapshot_end = end]

postProcessRollback_CountsFromZero(r, rollbackResult, prevHighSeqno) ==
    LET r1 == [r EXCEPT !.failovers =
                            pruneEntries(@, rollbackResult.highSeqno)]
        r2 == clear(r1, rollbackResult.highSeqno)
        r3 == setPersistedSnapshot(r2, rollbackResult.snapStartSeqno,
                                   rollbackResult.snapEndSeqno)
    IN [r3 EXCEPT !.rollbackItemCount = @ + prevHighSeqno,
                  !.openCheckpointId = 1,
                  !.receivingInitialDiskSnapshot = FALSE]

\* VBucket::postProcessRollback
postProcessRollback(r, rollbackResult, prevHighSeqno) ==
    LET r1 == [r EXCEPT !.failovers =
                            pruneEntries(@, rollbackResult.highSeqno)]
        r2 == clear(r1, rollbackResult.highSeqno)
        r3 == setPersistedSnapshot(r2, rollbackResult.snapStartSeqno,
                                   rollbackResult.snapEndSeqno)
    IN [r3 EXCEPT !.rollbackItemCount =
                      @ + (prevHighSeqno - rollbackResult.highSeqno),
                  !.openCheckpointId = 1,
                  !.receivingInitialDiskSnapshot = FALSE]

ReplicaStep(op, r) ==
    /\ replica' = [r EXCEPT !.last = op]
    /\ FrameExcept("replica")

\* the stream announces an initial disk snapshot to an empty replica
SnapshotMarker ==
    /\ replica.lastBySeqno = 0
    /\ ~replica.receivingInitialDiskSnapshot
    /\ ReplicaStep("marker",
                   [replica EXCEPT !.receivingInitialDiskSnapshot = TRUE])
\* the replica receives the next mutation of the stream
ReceiveMutation ==
    /\ replica.lastBySeqno < MaxRollbackSeqno
    /\ ReplicaStep("mutation",
                   [replica EXCEPT !.items = Append(@, replica.lastBySeqno + 1),
                                   !.lastBySeqno = @ + 1])
\* the flusher persists the checkpoint's items, a snapshot ending with them
FlushSnapshot ==
    /\ replica.items # <<>>
    /\ replica.openCheckpointId < MaxCheckpointId
    /\ ReplicaStep("flush",
                   [setPersistedSnapshot(replica, Head(replica.items),
                                         replica.lastBySeqno)
                        EXCEPT !.items = <<>>, !.openCheckpointId = @ + 1])
\* the store went back to a header not above the high seqno; the vBucket
\* follows
Rollback(rollbackResult) ==
    /\ rollbackResult.highSeqno <= replica.lastBySeqno
    /\ rollbackResult.snapEndSeqno <= replica.lastBySeqno
    /\ replica.rollbackItemCount + replica.lastBySeqno
           - rollbackResult.highSeqno <= MaxRollbackItems
    /\ ReplicaStep("rollback",
                   postProcessRollback(replica, rollbackResult,
                                       replica.lastBySeqno))

InitRollback ==
    /\ ConstructReplica
    /\ lastCall = NoLog
    /\ ExtInitExcept("replica")
    /\ \E table \in FailoverTables : replica = NewReplica(table)

NextRollback ==
    \/ SnapshotMarker
    \/ ReceiveMutation
    \/ FlushSnapshot
    \/ \E rollbackResult \in RollbackResults : Rollback(rollbackResult)

SpecRollback == InitRollback /\ [][NextRollback]_vars

(***************************************************************************)
(* High-priority waiters: clients waiting for a seqno or a checkpoint id   *)
(* to be persisted, and the adaptive checkpoint flush timeout.             *)
(***************************************************************************)
MIN_CHK_FLUSH_TIMEOUT == 10
MAX_CHK_FLUSH_TIMEOUT == 30
\* the waiters queued in one run, the ids waited for, the seconds observed
MaxWaiters == 3
MaxWaitId == 2
MaxClock == 35

HighPriorityVBNotify == {"Seqno", "ChkPersistence"}
NoNotifications == [c \in {} |-> ""]

\* VBucket::VBucket: no waiter; the flush timeout starts at its minimum
NewWaiters ==
    [hpVBReqs |-> <<>>,
     chkFlushTimeout |-> MIN_CHK_FLUSH_TIMEOUT,
     clock |-> 0,
     toNotify |-> NoNotifications,
     ioComplete |-> {},
     owed |-> {},
     phase |-> "up",
     last |-> "none"]

\* the cookie of the next waiter: a connection that is not waiting
WaiterCookies == 101 .. (100 + MaxWaiters)
NewWaiterCookie(h) ==
    Min(WaiterCookies \ {h.hpVBReqs[i].cookie : i \in DOMAIN h.hpVBReqs})

\* VBucket::addHighPriorityVBEntry
addHighPriorityVBEntry(h, seqnoOrChkId, cookie, reqType) ==
    [h EXCEPT !.hpVBReqs = Append(@, [cookie |-> cookie, id |-> seqnoOrChkId,
                                      reqType |-> reqType,
                                      start |-> h.clock])]

\* VBucket::adjustCheckpointFlushTimeout
adjustCheckpointFlushTimeout(wall_time) ==
    LET middle == (MIN_CHK_FLUSH_TIMEOUT + MAX_CHK_FLUSH_TIMEOUT) \div 2
    IN IF wall_time <= MIN_CHK_FLUSH_TIMEOUT THEN MIN_CHK_FLUSH_TIMEOUT
       ELSE IF wall_time <= middle THEN middle
       ELSE MAX_CHK_FLUSH_TIMEOUT

RECURSIVE hpScan_AnyKind(_, _, _, _, _)
hpScan_AnyKind(reqs, acc, idNum, notifyType, clock) ==
    IF reqs = <<>>
    THEN acc
    ELSE LET entry == Head(reqs)
             spent == clock - entry.start
         IN IF entry.id <= idNum
            THEN hpScan_AnyKind(Tail(reqs),
                     [acc EXCEPT !.toNotify = (entry.cookie :> "SUCCESS") @@ @,
                                 !.chkFlushTimeout =
                                     adjustCheckpointFlushTimeout(spent)],
                     idNum, notifyType, clock)
            ELSE IF spent > acc.chkFlushTimeout
            THEN hpScan_AnyKind(Tail(reqs),
                     [acc EXCEPT !.toNotify = (entry.cookie :> "TMPFAIL") @@ @,
                                 !.chkFlushTimeout =
                                     adjustCheckpointFlushTimeout(spent)],
                     idNum, notifyType, clock)
            ELSE hpScan_AnyKind(Tail(reqs),
                     [acc EXCEPT !.hpVBReqs = Append(@, entry)],
                     idNum, notifyType, clock)

\* the loop of VBucket::getHighPriorityNotifications over the entries left:
\* acc holds the entries kept, the map built and the timeout as adjusted
RECURSIVE hpScan(_, _, _, _, _)
hpScan(reqs, acc, idNum, notifyType, clock) ==
    IF reqs = <<>>
    THEN acc
    ELSE LET entry == Head(reqs)
             spent == clock - entry.start
         IN IF notifyType # entry.reqType
            THEN hpScan(Tail(reqs),
                        [acc EXCEPT !.hpVBReqs = Append(@, entry)],
                        idNum, notifyType, clock)
            ELSE IF entry.id <= idNum
            THEN hpScan(Tail(reqs),
                     [acc EXCEPT !.toNotify = (entry.cookie :> "SUCCESS") @@ @,
                                 !.chkFlushTimeout =
                                     adjustCheckpointFlushTimeout(spent)],
                     idNum, notifyType, clock)
            ELSE IF spent > acc.chkFlushTimeout
            THEN hpScan(Tail(reqs),
                     [acc EXCEPT !.toNotify = (entry.cookie :> "TMPFAIL") @@ @,
                                 !.chkFlushTimeout =
                                     adjustCheckpointFlushTimeout(spent)],
                     idNum, notifyType, clock)
            ELSE hpScan(Tail(reqs),
                        [acc EXCEPT !.hpVBReqs = Append(@, entry)],
                        idNum, notifyType, clock)

getHighPriorityNotifications_AnyKind(h, idNum, notifyType) ==
    LET acc == hpScan_AnyKind(h.hpVBReqs,
                      [hpVBReqs |-> <<>>, toNotify |-> NoNotifications,
                       chkFlushTimeout |-> h.chkFlushTimeout],
                      idNum, notifyType, h.clock)
    IN [h EXCEPT !.hpVBReqs = acc.hpVBReqs,
                 !.chkFlushTimeout = acc.chkFlushTimeout,
                 !.toNotify = acc.toNotify]

\* VBucket::getHighPriorityNotifications
getHighPriorityNotifications(h, idNum, notifyType) ==
    LET acc == hpScan(h.hpVBReqs,
                      [hpVBReqs |-> <<>>, toNotify |-> NoNotifications,
                       chkFlushTimeout |-> h.chkFlushTimeout],
                      idNum, notifyType, h.clock)
    IN [h EXCEPT !.hpVBReqs = acc.hpVBReqs,
                 !.chkFlushTimeout = acc.chkFlushTimeout,
                 !.toNotify = acc.toNotify]

tmpFailAndGetAllHpNotifies_KeepsQueue(h) ==
    [h EXCEPT !.toNotify = [c \in {h.hpVBReqs[i].cookie :
                                       i \in DOMAIN h.hpVBReqs} |-> "TMPFAIL"]]

\* VBucket::tmpFailAndGetAllHpNotifies
tmpFailAndGetAllHpNotifies(h) ==
    [h EXCEPT !.toNotify = [c \in {h.hpVBReqs[i].cookie :
                                       i \in DOMAIN h.hpVBReqs} |-> "TMPFAIL"],
              !.hpVBReqs = <<>>]

WaitersStep(h, op) ==
    /\ hp' = [h EXCEPT !.last = op]
    /\ FrameExcept("hp")

\* a client asks to be told when the seqno or checkpoint id is persisted
AddHighPriorityVBEntry(seqnoOrChkId, reqType) ==
    /\ hp.phase = "up"
    /\ Len(hp.hpVBReqs) < MaxWaiters
    /\ WaitersStep(addHighPriorityVBEntry(
                       [hp EXCEPT !.toNotify = NoNotifications],
                       seqnoOrChkId, NewWaiterCookie(hp), reqType),
                   "add")
\* the flusher or the checkpoint remover reports how far it got
GetHighPriorityNotifications(idNum, notifyType) ==
    /\ hp.phase = "up"
    /\ hp.hpVBReqs # <<>>
    /\ WaitersStep(getHighPriorityNotifications(hp, idNum, notifyType),
                   "get")
\* std::chrono::steady_clock: five seconds, then ten at a time
WaitersTick ==
    /\ hp.phase = "up"
    /\ hp.clock < MaxClock
    /\ WaitersStep([hp EXCEPT !.clock = IF @ = 0 THEN 5 ELSE @ + 10,
                              !.toNotify = NoNotifications],
                   "tick")

InitWaiters ==
    /\ Construct(<< <<"A", "B">> >>, Keys)
    /\ lastCall = NoLog
    /\ ExtInitExcept("hp")
    /\ hp = NewWaiters

NextWaiters ==
    \/ \E id \in 1 .. MaxWaitId, reqType \in HighPriorityVBNotify :
           AddHighPriorityVBEntry(id, reqType)
    \/ \E idNum \in 0 .. MaxWaitId, notifyType \in HighPriorityVBNotify :
           GetHighPriorityNotifications(idNum, notifyType)
    \/ WaitersTick

SpecWaiters == InitWaiters /\ [][NextWaiters]_vars

(***************************************************************************)
(* Disconnect or shutdown of the partition: the waiters and the sync       *)
(* writes in flight are failed.                                            *)
(***************************************************************************)
\* the cookies of the sync writes in flight: tracked and not yet completed
InFlightCookies == {tracked[i].cookie : i \in DOMAIN tracked} \ {NoCookie}
WaitingCookies == {hp.hpVBReqs[i].cookie : i \in DOMAIN hp.hpVBReqs}

\* the partition is told to disconnect or shut down
Disconnect ==
    /\ hp.phase = "up"
    /\ hp' = [hp EXCEPT !.phase = "disconnecting",
                        !.owed = WaitingCookies \cup InFlightCookies,
                        !.toNotify = NoNotifications,
                        !.last = "disconnect"]
    /\ FrameExcept("hp")

\* EPVBucket::notifyAllPendingConnsFailed: every waiter that
\* tmpFailAndGetAllHpNotifies returns is told so
NotifyAllPendingConnsFailed ==
    /\ hp.phase = "disconnecting"
    /\ LET h == tmpFailAndGetAllHpNotifies(hp)
       IN hp' = [h EXCEPT !.ioComplete =
                              @ \cup {<<c, h.toNotify[c]>> :
                                          c \in DOMAIN h.toNotify},
                          !.phase = "failing",
                          !.last = "notifyAllPendingConnsFailed"]
    /\ FrameExcept("hp")

RECURSIVE failSyncWrites(_, _)
\* every sync write in flight is completed with Tmpfail, oldest first
failSyncWrites(st, trk) ==
    IF trk = <<>>
    THEN st
    ELSE failSyncWrites(
             IF Head(trk).cookie = NoCookie
             THEN st
             ELSE notifyClientOfSyncWriteComplete(st, Head(trk).cookie,
                                                  "TMPFAIL"),
             Tail(trk))

FailInFlightSyncWrites ==
    /\ hp.phase = "failing"
    /\ Install(failSyncWrites(St, tracked))
    /\ hp' = [hp EXCEPT !.phase = "down", !.last = "failSyncWrites"]
    /\ UNCHANGED <<state, topology, persistenceSeqno, now, result, threads,
                   dmQueueMutex, lastCall, request, store, replica, manifest,
                   hbl, pendingOps>>

InitShutdown ==
    /\ Construct(<< <<"A", "B">> >>, Keys)
    /\ lastCall = NoLog
    /\ ExtInitExcept("hp")
    /\ hp = NewWaiters

\* while the partition is up: durable and plain sets, acks of the replica,
\* clients that wait
ShutdownTraffic ==
    /\ hp.phase = "up"
    /\ \/ \E key \in Keys, dur \in MajorityOrNone : Set(key, dur, TRUE)
       \/ StateAcks
       \/ \E id \in 1 .. MaxWaitId, reqType \in HighPriorityVBNotify :
              AddHighPriorityVBEntry(id, reqType)

NextShutdown ==
    \/ ShutdownTraffic
    \/ Disconnect
    \/ NotifyAllPendingConnsFailed
    \/ FailInFlightSyncWrites

\* once told to disconnect, the partition carries the two steps out
SpecShutdown ==
    /\ InitShutdown
    /\ [][NextShutdown]_vars
    /\ WF_vars(NotifyAllPendingConnsFailed)
    /\ WF_vars(FailInFlightSyncWrites)

(***************************************************************************)
(* The bucket manifest: Collections::Manifest, built from a JSON document  *)
(* {uid, scopes: [{name, uid, collections: [{name, uid, max_ttl?}]}]}.     *)
(* A name is a sequence of characters; a uid is the string of its hex      *)
(* digits; an unsigned 64-bit number is four 16-bit limbs, most            *)
(* significant first; an optional key is a sequence of at most one value.  *)
(***************************************************************************)
MaxJsonScopes == 2
MaxJsonCollections == 2

\* the ids the uid strings of the documents spell
HexUids == {<<"0", 0>>, <<"1", 1>>, <<"8", 8>>, <<"9", 9>>}
makeUid(str) == (CHOOSE p \in HexUids : p[1] = str)[2]
makeScopeID(str) == makeUid(str)
makeCollectionID(str) == makeUid(str)
DefaultScopeID == 0
DefaultCollectionID == 0
SystemCollectionID == 1
MaxCollectionNameSize == 30

Uint64(l3, l2, l1, l0) == <<l3, l2, l1, l0>>
UINT32_MAX == Uint64(0, 0, 65535, 65535)
RECURSIVE GreaterFrom(_, _, _)
GreaterFrom(a, b, i) ==
    IF i > Len(a) THEN FALSE
    ELSE IF a[i] # b[i] THEN a[i] > b[i]
    ELSE GreaterFrom(a, b, i + 1)
\* a > b on unsigned 64-bit numbers
Greater(a, b) == GreaterFrom(a, b, 1)

Digits == {"0", "1", "2", "3", "4", "5", "6", "7", "8", "9"}
Letters ==
    {"a", "b", "c", "d", "e", "f", "g", "h", "i", "j", "k", "l", "m", "n",
     "o", "p", "q", "r", "s", "t", "u", "v", "w", "x", "y", "z", "A", "B",
     "C", "D", "E", "F", "G", "H", "I", "J", "K", "L", "M", "N", "O", "P",
     "Q", "R", "S", "T", "U", "V", "W", "X", "Y", "Z"}
\* Manifest::validName
validName(name) ==
    IF name = <<>> \/ Len(name) > MaxCollectionNameSize \/ name[1] = "$"
    THEN FALSE
    ELSE \A i \in 1..Len(name) :
            \/ name[i] \in Digits
            \/ name[i] \in Letters
            \/ name[i] \in {"_", "-", "%", "$"}

\* Manifest::invalidCollectionID: System cannot appear in a manifest
invalidCollectionID(identifier) == identifier = SystemCollectionID

\* the exception a constructor leaves by: no object is constructed
Throw(exception, what) == [threw |-> exception, what |-> what]
Constructed(m) == [threw |-> "", manifest |-> m]

\* the members as the constructor's initialiser list leaves them
EmptyManifest ==
    [defaultCollectionExists |-> FALSE, uid |-> 0, scopes |-> {},
     collections |-> {}]

\* Manifest::enableDefaultCollection
enableDefaultCollection(m, identifier) ==
    IF identifier = DefaultCollectionID
    THEN [m EXCEPT !.defaultCollectionExists = TRUE]
    ELSE m

\* the constructor without the check below
defaultCollectionOutsideDefaultScope_Unchecked(cuidValue, uidValue) == FALSE
\* the check that keeps the default collection in the default scope
defaultCollectionOutsideDefaultScope(cuidValue, uidValue) ==
    cuidValue = DefaultCollectionID /\ uidValue # DefaultScopeID

\* the loop over the collections of one scope; scopeCollections is the
\* vector of the entries read so far
RECURSIVE readCollections(_, _, _, _, _)
readCollections(m, uidValue, collections, i, scopeCollections) ==
    IF i > Len(collections)
    THEN [threw |-> "", manifest |-> m, scopeCollections |-> scopeCollections]
    ELSE
    LET collection == collections[i]
        cnameValue == collection.name
        cuidValue == makeCollectionID(collection.uid)
        cmaxttl == collection.max_ttl
    IN IF ~validName(cnameValue)
       THEN Throw("invalid_argument", "collection name is not valid")
       ELSE IF invalidCollectionID(cuidValue)
       THEN Throw("invalid_argument", "collection uid is not valid")
       ELSE IF \E c \in m.collections : c.id = cuidValue
       THEN Throw("invalid_argument", "duplicate collection uid")
       ELSE IF \E k \in 1..Len(scopeCollections) :
                 \E c \in m.collections :
                     /\ c.id = scopeCollections[k].id
                     /\ c.name = cnameValue
       THEN Throw("invalid_argument", "duplicate collection name")
       ELSE IF defaultCollectionOutsideDefaultScope(cuidValue, uidValue)
       THEN Throw("invalid_argument",
                  "the default collection is not in the default scope")
       ELSE IF cmaxttl # <<>> /\ Greater(cmaxttl[1], UINT32_MAX)
       THEN Throw("out_of_range", "max_ttl")
       ELSE readCollections(
                [enableDefaultCollection(m, cuidValue) EXCEPT
                    !.collections = @ \cup
                        {[id |-> cuidValue, name |-> cnameValue]}],
                uidValue, collections, i + 1,
                Append(scopeCollections,
                       [id |-> cuidValue, maxTtl |-> cmaxttl]))

\* the loop over the scopes of the document
RECURSIVE readScopes(_, _, _, _)
readScopes(m, scopes, i, maxNumberOfCollections) ==
    IF i > Len(scopes)
    THEN Constructed(m)
    ELSE
    LET scope == scopes[i]
        nameValue == scope.name
        uidValue == makeScopeID(scope.uid)
    IN IF ~validName(nameValue)
       THEN Throw("invalid_argument", "scope name is not valid")
       ELSE IF \E s \in m.scopes : s.id = uidValue
       THEN Throw("invalid_argument", "duplicate scope uid")
       ELSE IF \E s \in m.scopes : s.name = nameValue
       THEN Throw("invalid_argument", "duplicate scope name")
       ELSE IF Len(scope.collections) + Cardinality(m.collections)
                   > maxNumberOfCollections
       THEN Throw("invalid_argument", "too many collections")
       ELSE LET read == readCollections(m, uidValue, scope.collections, 1,
                                        <<>>)
            IN IF read.threw # ""
               THEN read
               ELSE readScopes(
                        [read.manifest EXCEPT
                            !.scopes = @ \cup
                                {[id |-> uidValue, name |-> nameValue,
                                  collections |-> read.scopeCollections]}],
                        scopes, i + 1, maxNumberOfCollections)

\* Collections::Manifest::Manifest(json, maxNumberOfScopes,
\* maxNumberOfCollections)
Manifest(json, maxNumberOfScopes, maxNumberOfCollections) ==
    IF Len(json.scopes) > maxNumberOfScopes
    THEN Throw("invalid_argument", "too many scopes")
    ELSE LET read == readScopes([EmptyManifest EXCEPT
                                    !.uid = makeUid(json.uid)],
                                json.scopes, 1, maxNumberOfCollections)
         IN IF read.threw # ""
            THEN read
            ELSE IF read.manifest.scopes = {}
            THEN Throw("invalid_argument", "no scopes were defined")
            ELSE IF ~\E s \in read.manifest.scopes : s.id = DefaultScopeID
            THEN Throw("invalid_argument", "the default scope was not defined")
            ELSE read

\* the documents handed to the constructor
JsonMaxTtls == {<<>>, <<UINT32_MAX>>, <<Uint64(0, 1, 0, 0)>>}
JsonCollections ==
    [name : {<<"a">>, <<"b">>, <<"$", "a">>}, uid : {"0", "1", "8"},
     max_ttl : JsonMaxTtls]
JsonCollectionLists(n) == [1..n -> JsonCollections]
JsonScopes(n) ==
    [name : {<<"a">>, <<"b">>}, uid : {"0", "8"},
     collections : JsonCollectionLists(n)]
\* the numbers of collections of the scopes of a document
JsonShapes ==
    {<<>>}
    \cup {<<n>> : n \in 0..MaxJsonCollections}
    \cup {p \in (0..MaxJsonCollections) \X (0..MaxJsonCollections) :
             p[1] + p[2] <= MaxJsonCollections}
JsonScopeLists(shape) ==
    IF shape = <<>> THEN {<<>>}
    ELSE IF Len(shape) = 1 THEN {<<s>> : s \in JsonScopes(shape[1])}
    ELSE {<<s1, s2>> : s1 \in JsonScopes(shape[1]),
                       s2 \in JsonScopes(shape[2])}
JsonManifests(shape) == [uid : {"9"}, scopes : JsonScopeLists(shape)]
ManifestLimits == {<<1, 1>>, <<MaxJsonScopes, MaxJsonCollections>>}

\* a document arrives and is handed to the constructor
ParseManifest ==
    /\ manifest.phase = "received"
    /\ manifest' = [manifest EXCEPT
                       !.phase = "parsed",
                       !.parsed = Manifest(manifest.json,
                                           manifest.maxNumberOfScopes,
                                           manifest.maxNumberOfCollections)]
    /\ FrameExcept("manifest")

InitManifest ==
    /\ Construct(<< <<"A">> >>, Keys)
    /\ lastCall = NoLog
    /\ ExtInitExcept("manifest")
    /\ \E shape \in JsonShapes, limits \in ManifestLimits :
         \E json \in JsonManifests(shape) :
           manifest = [phase |-> "received", json |-> json,
                       maxNumberOfScopes |-> limits[1],
                       maxNumberOfCollections |-> limits[2],
                       parsed |-> Throw("", "")]

NextManifest == ParseManifest

SpecManifest == InitManifest /\ [][NextManifest]_vars

(***************************************************************************)
(* The manifests of the vBuckets: Collections::VB::Manifest of an active   *)
(* and of a replica vBucket, as ActiveReplicaManifest owns them.  The      *)
(* active is updated from bucket manifests and queues a system event for   *)
(* each change; the replica is fed the events of the active's checkpoint.  *)
(* A dropped collection leaves the map (exists() and size() of the mock).  *)
(***************************************************************************)
MaxManifestSeqno == 5

\* Collections::VB::Manifest(): the default scope and collection exist
NewVBManifest ==
    [manifestUid |-> 0,
     scopes |-> {DefaultScopeID},
     map |-> {[cid |-> DefaultCollectionID, sid |-> DefaultScopeID,
               startSeqno |-> 0, maxTtl |-> <<>>]}]

\* Manifest::addCollection: the entry starts at the seqno of its event
addCollection(m, uid, sid, cid, maxTtl, seqno) ==
    [m EXCEPT !.manifestUid = uid,
              !.map = @ \cup {[cid |-> cid, sid |-> sid,
                               startSeqno |-> seqno, maxTtl |-> maxTtl]}]
\* Manifest::dropCollection
dropCollection(m, uid, cid) ==
    [m EXCEPT !.manifestUid = uid, !.map = {e \in @ : e.cid # cid}]
\* Manifest::addScope
addScope(m, uid, sid) ==
    [m EXCEPT !.manifestUid = uid, !.scopes = @ \cup {sid}]
\* Manifest::dropScope: the collections of the scope go with it
dropScope(m, uid, sid) ==
    [m EXCEPT !.manifestUid = uid, !.scopes = @ \ {sid},
              !.map = {e \in @ : e.sid # sid}]

\* the four ways a manifest changes, and the data of the event of each
Change(kind, sid, cid, name, maxTtl) ==
    [kind |-> kind, sid |-> sid, cid |-> cid, name |-> name,
     maxTtl |-> maxTtl]
applyChange(m, uid, c, seqno) ==
    CASE c.kind = "addScope" -> addScope(m, uid, c.sid)
      [] c.kind = "dropCollection" -> dropCollection(m, uid, c.cid)
      [] c.kind = "addCollection" ->
            addCollection(m, uid, c.sid, c.cid, c.maxTtl, seqno)
      [] c.kind = "dropScope" -> dropScope(m, uid, c.sid)

\* Manifest::queueSystemEvent: the item of a change, with the fields its
\* payload carries (create: uid, scope, collection, name, maxTtl; drop: uid,
\* collection; create scope: uid, scope, name; drop scope: uid, scope)
SystemEventItem(uid, c, seqno) ==
    [seqno |-> seqno,
     op |-> "system_event",
     flags |-> IF c.kind \in {"addScope", "dropScope"} THEN "Scope"
               ELSE "Collection",
     deleted |-> c.kind \in {"dropCollection", "dropScope"},
     data |-> [manifestUid |-> uid,
               sid |-> IF c.kind = "dropCollection" THEN 0 ELSE c.sid,
               cid |-> IF c.kind \in {"addCollection", "dropCollection"}
                       THEN c.cid ELSE 0,
               name |-> IF c.kind \in {"addCollection", "addScope"}
                        THEN c.name ELSE <<>>,
               maxTtl |-> IF c.kind = "addCollection" THEN c.maxTtl
                          ELSE <<>>]]
MutationItem(seqno) ==
    [seqno |-> seqno, op |-> "mutation", flags |-> "", deleted |-> FALSE,
     data |-> [manifestUid |-> 0, sid |-> 0, cid |-> 0, name |-> <<>>,
               maxTtl |-> <<>>]]

\* Manifest::processManifest: what the bucket manifest adds and removes.
\* A scope that goes takes its collections along; the other collections
\* the bucket manifest no longer has are dropped one by one.
processManifest(m, bucket) ==
    [scopesToAdd |->
        {Change("addScope", s.id, 0, s.name, <<>>) :
            s \in {s \in bucket.scopes : s.id \notin m.scopes}},
     collectionsToRemove |->
        {Change("dropCollection", e.sid, e.cid, <<>>, <<>>) :
            e \in {e \in m.map :
                     /\ ~\E c \in bucket.collections : c.id = e.cid
                     /\ \E s \in bucket.scopes : s.id = e.sid}},
     collectionsToAdd |->
        UNION {{Change("addCollection", s.id, s.collections[i].id,
                       (CHOOSE c \in bucket.collections :
                            c.id = s.collections[i].id).name,
                       s.collections[i].maxTtl) :
                   i \in {i \in 1..Len(s.collections) :
                             ~\E e \in m.map : e.cid = s.collections[i].id}} :
               s \in bucket.scopes},
     scopesToRemove |->
        {Change("dropScope", sid, 0, <<>>, <<>>) :
            sid \in {sid \in m.scopes :
                        ~\E s \in bucket.scopes : s.id = sid}}]

\* the orders a container without an order may be walked in
Orderings(S) ==
    {f \in [1..Cardinality(S) -> S] :
        \A i, k \in 1..Cardinality(S) : i # k => f[i] # f[k]}
\* scope creations, then drops, then creations, then scope drops
ChangeOrders(changes) ==
    {a \o b \o c \o d :
        a \in Orderings(changes.scopesToAdd),
        b \in Orderings(changes.collectionsToRemove),
        c \in Orderings(changes.collectionsToAdd),
        d \in Orderings(changes.scopesToRemove)}

\* Manifest::update on the active: every change but the last is made
\* under the uid the manifest has, the last one under the new uid; each
\* takes the next seqno of the vBucket.  vb is <<manifest, items queued>>.
RECURSIVE applyChanges(_, _, _, _, _)
applyChanges(m, items, highSeqno, changes, newUid) ==
    IF changes = <<>>
    THEN [manifest |-> m, items |-> items]
    ELSE LET uid == IF Len(changes) = 1 THEN newUid ELSE m.manifestUid
             seqno == highSeqno + 1
         IN applyChanges(applyChange(m, uid, Head(changes), seqno),
                         Append(items,
                                SystemEventItem(uid, Head(changes), seqno)),
                         seqno, Tail(changes), newUid)

\* the replica functions of the manifest: replicaAdd, replicaDrop,
\* replicaAddScope, replicaDropScope
replicaAdd(m, manifestUid, sid, cid, maxTtl, startSeqno) ==
    addCollection(m, manifestUid, sid, cid, maxTtl, startSeqno)
replicaDrop(m, manifestUid, cid) == dropCollection(m, manifestUid, cid)
replicaAddScope(m, manifestUid, sid) == addScope(m, manifestUid, sid)
replicaDropScope(m, manifestUid, sid) == dropScope(m, manifestUid, sid)

\* the loop body without its drops: a deleted event is passed over
applySystemEvent_CreatesOnly(replicaManifest, qi) ==
    IF qi.deleted THEN replicaManifest
    ELSE IF qi.flags = "Collection"
    THEN replicaAdd(replicaManifest, qi.data.manifestUid, qi.data.sid,
                    qi.data.cid, qi.data.maxTtl, qi.seqno)
    ELSE replicaAddScope(replicaManifest, qi.data.manifestUid, qi.data.sid)
\* ActiveReplicaManifest::applyCheckpointEventsToReplica, the loop body
applySystemEvent(replicaManifest, qi) ==
    IF qi.flags = "Collection"
    THEN IF qi.deleted
         THEN replicaDrop(replicaManifest, qi.data.manifestUid, qi.data.cid)
         ELSE replicaAdd(replicaManifest, qi.data.manifestUid, qi.data.sid,
                         qi.data.cid, qi.data.maxTtl, qi.seqno)
    ELSE IF qi.deleted
         THEN replicaDropScope(replicaManifest, qi.data.manifestUid,
                               qi.data.sid)
         ELSE replicaAddScope(replicaManifest, qi.data.manifestUid,
                              qi.data.sid)

\* ActiveReplicaManifest::getEventsFromCheckpoint
getEventsFromCheckpoint(items) == SelectSeq(items, LAMBDA qi : qi.op = "system_event")

RECURSIVE applyCheckpointEventsToReplica(_, _)
applyCheckpointEventsToReplica(replicaManifest, events) ==
    IF events = <<>> THEN replicaManifest
    ELSE applyCheckpointEventsToReplica(
             applySystemEvent(replicaManifest, Head(events)), Tail(events))

\* MockVBManifest::operator==
ManifestsEqual(lhs, rhs) ==
    /\ Cardinality(rhs.map) = Cardinality(lhs.map)
    /\ \A e \in lhs.map : e \in rhs.map
    /\ Cardinality(lhs.scopes) = Cardinality(rhs.scopes)
    /\ \A s \in lhs.scopes : s \in rhs.scopes
    /\ rhs.manifestUid = lhs.manifestUid

\* a key names its collection; Manifest::lock(key) is the handle of a key
DocKeys == {[cid |-> 0, key |-> "anykey"], [cid |-> 8, key |-> "carrot"]}
CachingReadHandle(m, key) ==
    [key |-> key,
     valid |-> \E e \in m.map : e.cid = key.cid,
     startSeqno |-> IF \E e \in m.map : e.cid = key.cid
                    THEN (CHOOSE e \in m.map : e.cid = key.cid).startSeqno
                    ELSE 0]
\* CachingReadHandle::isLogicallyDeleted
isLogicallyDeleted(cHandle, seqno) ==
    IF ~cHandle.valid THEN TRUE ELSE seqno <= cHandle.startSeqno

\* VBucket::isLogicallyNonExistent with the handle of the key
isLogicallyNonExistentIn(v, cHandle) ==
    isLogicallyNonExistent(v) \/ isLogicallyDeleted(cHandle, v.seqno)

\* a stored value of a document without expiry time
NoStoredValue == [there |-> FALSE, temp |-> "None", deleted |-> FALSE,
                  seqno |-> 0]

\* VBucket::fetchValidValue(WantsDeleted::Yes, _, QueueExpired::Yes, cHandle)
\* of a value that has not expired
fetchValidValueIn(h, cHandle) ==
    IF ~cHandle.valid
    THEN [threw |-> "invalid_argument", v |-> NoStoredValue]
    ELSE [threw |-> "", v |-> h.ht[cHandle.key]]

\* VBucket::getInternal for a resident value; options is the set of flags
getInternal(h, cHandle, options) ==
    LET res == fetchValidValueIn(h, cHandle)
        v == res.v
    IN IF res.threw # "" THEN res.threw
       ELSE IF v.there
       THEN IF \/ v.deleted /\ "GET_DELETED_VALUE" \notin options
               \/ isLogicallyDeleted(cHandle, v.seqno)
            THEN "KEY_ENOENT"
            ELSE IF isTempDeletedItem(v) \/ isTempNonExistentItem(v)
            THEN "KEY_ENOENT"
            ELSE "SUCCESS"
       ELSE "KEY_ENOENT"

\* VBucket::getLocked, up to the lock
getLocked(h, cHandle) ==
    LET res == fetchValidValueIn(h, cHandle)
    IN IF res.threw # "" THEN res.threw
       ELSE IF res.v.there
       THEN IF isLogicallyNonExistentIn(res.v, cHandle) THEN "KEY_ENOENT"
            ELSE "SUCCESS"
       ELSE "KEY_ENOENT"

\* VBucket::getMetaData of a value in the hash table
getMetaDataIn(h, cHandle) ==
    LET v == h.ht[cHandle.key]
    IN IF v.there
       THEN IF isTempInitialItem(v) THEN "EWOULDBLOCK"
            ELSE IF isTempNonExistentItem(v) THEN "KEY_ENOENT"
            ELSE IF isLogicallyDeleted(cHandle, v.seqno) THEN "KEY_ENOENT"
            ELSE "SUCCESS"
       ELSE "KEY_ENOENT"

\* the two vBuckets of ActiveReplicaManifest, the documents of the active
\* and, as history, the seqno every collection was last dropped at
NewActiveReplicaManifest ==
    [active |-> NewVBManifest,
     replica |-> NewVBManifest,
     items |-> <<>>,
     highSeqno |-> 0,
     ht |-> [k \in DocKeys |-> NoStoredValue],
     dropped |-> [cid \in {0, 8} |-> 0],
     last |-> [op |-> "none", key |-> [cid |-> 0, key |-> ""],
               deleted |-> FALSE, ret |-> ""]]

\* the limits of a manifest built without naming them
DefaultMaxNumberOfScopes == 100
DefaultMaxNumberOfCollections == 1000

\* the bucket manifests the cluster hands out
UpdateCollections ==
    [name : {<<"a">>}, uid : {"0"}, max_ttl : {<<>>}]
    \cup [name : {<<"b">>}, uid : {"8"}, max_ttl : {<<Uint64(0, 0, 0, 5)>>}]
UpdateCollectionLists ==
    {<<>>} \cup {<<c>> : c \in UpdateCollections}
    \cup {<<c, d>> : c \in {c \in UpdateCollections : c.uid = "0"},
                     d \in {d \in UpdateCollections : d.uid # "0"}}
UpdateManifests ==
    {[uid |-> uid, scopes |-> scopes] :
        uid \in {"1", "9"},
        scopes \in
            {<<[name |-> <<"a">>, uid |-> "0", collections |-> cs]>> :
                cs \in UpdateCollectionLists}
            \cup {<<[name |-> <<"a">>, uid |-> "0", collections |-> cs],
                    [name |-> <<"s">>, uid |-> "8", collections |-> ds]>> :
                    cs \in UpdateCollectionLists,
                    ds \in {<<>>} \cup {<<d>> : d \in {d \in UpdateCollections :
                                                        d.uid # "0"}}}}

\* the drops a list of events makes, recorded in the history
RECURSIVE noteDrops(_, _, _)
noteDrops(dropped, before, events) ==
    IF events = <<>> THEN dropped
    ELSE LET qi == Head(events)
             gone == IF ~qi.deleted THEN {}
                     ELSE IF qi.flags = "Collection" THEN {qi.data.cid}
                     ELSE {e.cid : e \in {e \in before.map :
                                            e.sid = qi.data.sid}}
         IN noteDrops([cid \in DOMAIN dropped |->
                          IF cid \in gone THEN qi.seqno ELSE dropped[cid]],
                      applySystemEvent(before, qi), Tail(events))

\* what a step that is no read leaves in the history
Did(op, ret) ==
    [op |-> op, key |-> [cid |-> 0, key |-> ""], deleted |-> FALSE,
     ret |-> ret]

\* ActiveReplicaManifest::update, the active's half: the bucket manifest is
\* built from the document and the active's manifest is updated with it,
\* its changes made in the order given
updateActive(h, parsed, changes) ==
    IF parsed.threw # ""
    THEN [h EXCEPT !.last = Did("update", parsed.threw)]
    ELSE LET done == applyChanges(h.active, <<>>, h.highSeqno, changes,
                                  parsed.manifest.uid)
         IN [h EXCEPT !.active = done.manifest,
                      !.items = @ \o done.items,
                      !.highSeqno = @ + Len(changes),
                      !.dropped = noteDrops(@, h.active, done.items),
                      !.last = Did("update", "true")]

\* ActiveReplicaManifest::update, the replica's half: all the items queued
\* are taken from the checkpoint of the active and its events applied
replay(h) ==
    [h EXCEPT !.replica = applyCheckpointEventsToReplica(
                              @, getEventsFromCheckpoint(h.items)),
              !.items = <<>>,
              !.last = Did("replay",
                           IF getEventsFromCheckpoint(h.items) = <<>>
                           THEN "logic_error" ELSE "true")]

\* the bucket manifests of the documents, or what their constructor threw,
\* and the orders the changes of one can take
ParsedUpdates ==
    {Manifest(json, DefaultMaxNumberOfScopes, DefaultMaxNumberOfCollections) :
        json \in UpdateManifests}
UpdateOrders(h, parsed) ==
    IF parsed.threw # "" THEN {<<>>}
    ELSE {changes \in ChangeOrders(processManifest(h.active,
                                                   parsed.manifest)) :
             h.highSeqno + Len(changes) <= MaxManifestSeqno}

UpdateActive(parsed) ==
    /\ \E changes \in UpdateOrders(manifest, parsed) :
           manifest' = updateActive(manifest, parsed, changes)
    /\ FrameExcept("manifest")

ApplyCheckpointEventsToReplica ==
    /\ manifest.items # <<>>
    /\ manifest' = replay(manifest)
    /\ FrameExcept("manifest")

\* ActiveReplicaManifest::update as a whole
Update(parsed) ==
    /\ \E changes \in UpdateOrders(manifest, parsed) :
           manifest' = IF parsed.threw # ""
                       THEN updateActive(manifest, parsed, changes)
                       ELSE replay(updateActive(manifest, parsed, changes))
    /\ FrameExcept("manifest")

\* VBucket::set of a document of a live collection on the active
SetInCollection(key) ==
    /\ CachingReadHandle(manifest.active, key).valid
    /\ manifest.highSeqno < MaxManifestSeqno
    /\ manifest' = [manifest EXCEPT
                       !.ht[key] = [there |-> TRUE, temp |-> "None",
                                    deleted |-> FALSE,
                                    seqno |-> manifest.highSeqno + 1],
                       !.items = Append(@, MutationItem(
                                               manifest.highSeqno + 1)),
                       !.highSeqno = @ + 1,
                       !.last = Did("set", "SUCCESS")]
    /\ FrameExcept("manifest")

\* a read of a key of the active through the handle of its key
ReadInCollection(op, key, ret) ==
    /\ manifest' = [manifest EXCEPT
                       !.last = [op |-> op, key |-> key,
                                 deleted |->
                                     /\ manifest.ht[key].there
                                     /\ isLogicallyDeleted(
                                            CachingReadHandle(manifest.active,
                                                              key),
                                            manifest.ht[key].seqno),
                                 ret |-> ret]]
    /\ FrameExcept("manifest")
GetInternal(key) ==
    \E options \in {{}, {"GET_DELETED_VALUE"}} :
        ReadInCollection("get", key,
                         getInternal(manifest,
                                     CachingReadHandle(manifest.active, key),
                                     options))
GetLocked(key) ==
    ReadInCollection("getLocked", key,
                     getLocked(manifest,
                               CachingReadHandle(manifest.active, key)))
GetMetaDataIn(key) ==
    ReadInCollection("getMeta", key,
                     getMetaDataIn(manifest,
                                   CachingReadHandle(manifest.active, key)))

InitCollections ==
    /\ Construct(<< <<"A">> >>, Keys)
    /\ lastCall = NoLog
    /\ ExtInitExcept("manifest")
    /\ manifest = NewActiveReplicaManifest

\* the active is updated and written to; the replica follows when fed
NextReplay ==
    \/ \E parsed \in ParsedUpdates : UpdateActive(parsed)
    \/ ApplyCheckpointEventsToReplica
    \/ \E key \in DocKeys : SetInCollection(key)

SpecReplay == InitCollections /\ [][NextReplay]_vars

\* the manifests are updated, documents written and read
NextCollections ==
    \/ \E parsed \in ParsedUpdates : Update(parsed)
    \/ \E key \in DocKeys : SetInCollection(key)
    \/ \E key \in DocKeys : GetInternal(key)
    \/ \E key \in DocKeys : GetLocked(key)
    \/ \E key \in DocKeys : GetMetaDataIn(key)

SpecCollections == InitCollections /\ [][NextCollections]_vars

(***************************************************************************)
(* One stored value under its hash-bucket lock: the CAS, lock and expiry   *)
(* policy of VBucket::processSet and VBucket::processSoftDelete.           *)
(***************************************************************************)
\* the CAS values a stored value may carry; 0 is "no CAS given"
MaxCas == 2
\* ep_real_time() at the call; an expiry time of 0 never expires
RealTime == 2
\* the CAS the hybrid logical clock gives to a value written without metadata
NextHlcCas == MaxCas + 1

\* no stored value under the key
NoValue_Hbl ==
    [there |-> FALSE, temp |-> "No", deleted |-> FALSE, cas |-> 0,
     locked |-> FALSE, exptime |-> 0, revSeqno |-> 0, flags |-> 0,
     committed |-> "CommittedViaMutation", dirty |-> FALSE]

\* the stored values a key may hold: only a live committed value can be
\* locked (the lock time shares its field with the delete time)
StoredValues ==
    {NoValue_Hbl}
    \cup {[there |-> TRUE, temp |-> "No", deleted |-> FALSE, cas |-> c,
           locked |-> l, exptime |-> e, revSeqno |-> 1, flags |-> 0,
           committed |-> "CommittedViaMutation", dirty |-> d] :
             c \in 1..MaxCas, l \in BOOLEAN,
             e \in {0, RealTime - 1, RealTime + 1}, d \in BOOLEAN}
    \cup {[there |-> TRUE, temp |-> "No", deleted |-> dl, cas |-> c,
           locked |-> FALSE, exptime |-> 0, revSeqno |-> 1, flags |-> 0,
           committed |-> "Pending", dirty |-> TRUE] :
             c \in 1..MaxCas, dl \in BOOLEAN}
    \cup {[there |-> TRUE, temp |-> "No", deleted |-> TRUE, cas |-> c,
           locked |-> FALSE, exptime |-> 0, revSeqno |-> 1, flags |-> 0,
           committed |-> "CommittedViaMutation", dirty |-> d] :
             c \in 1..MaxCas, d \in BOOLEAN}
    \cup {[there |-> TRUE, temp |-> t, deleted |-> FALSE, cas |-> c,
           locked |-> FALSE, exptime |-> 0, revSeqno |-> 1, flags |-> 0,
           committed |-> "CommittedViaMutation", dirty |-> FALSE] :
             t \in {"Init", "Deleted", "NonExistent"}, c \in 1..MaxCas}

\* StoredValue::isExpired
isExpired_At(v, asOf) == v.exptime # 0 /\ v.exptime < asOf
\* StoredValue::unlock
unlock(v) == [v EXCEPT !.locked = FALSE]
\* StoredValue::isTempItem
isTempItem_Hbl(v) == v.temp # "No"

\* what a step under the bucket lock hands back: the value now under the
\* key, the status, and whether an item was queued (a notify context made)
Hbl(v, status, queued) == [v |-> v, status |-> status, queued |-> queued]

\* EPVBucket::updateStoredValue: a prepare in flight refuses the write
updateStoredValue_Hbl(v, itm) ==
    IF v.committed = "Pending"
    THEN Hbl(v, "IsPendingSyncWrite", FALSE)
    ELSE Hbl([there |-> TRUE, temp |-> "No", deleted |-> itm.deleted,
              cas |-> itm.cas, locked |-> FALSE, exptime |-> itm.exptime,
              revSeqno |-> itm.revSeqno, flags |-> itm.flags,
              committed |-> "CommittedViaMutation", dirty |-> TRUE],
             IF v.dirty THEN "WasDirty" ELSE "WasClean", TRUE)

\* EPVBucket::addNewStoredValue
addNewStoredValue_Hbl(itm, genRevSeqno) ==
    [there |-> TRUE, temp |-> "No", deleted |-> itm.deleted,
     cas |-> itm.cas, locked |-> FALSE, exptime |-> itm.exptime,
     revSeqno |-> IF genRevSeqno THEN 1 ELSE itm.revSeqno,
     flags |-> itm.flags, committed |-> "CommittedViaMutation",
     dirty |-> TRUE]

\* the item of a write: with metadata it brings its own CAS and revSeqno
WriteItem_Hbl(deleted, hasMetaData) ==
    [deleted |-> deleted, cas |-> NextHlcCas, exptime |-> 0,
     revSeqno |-> IF hasMetaData THEN 2 ELSE 0, flags |-> 1]

\* mutant: a CAS write onto a deleted value goes through
replacesDeleted_Allowed(v, itm, cas, hasMetaData) == FALSE

\* MB-23530: a set with a CAS and without metadata onto a deleted value,
\* the new value not being deleted itself
replacesDeleted(v, itm, cas, hasMetaData) ==
    ~hasMetaData /\ cas # 0 /\ (v.deleted \/ v.temp = "Deleted")
    /\ ~itm.deleted

\* mutant: every CAS mismatch is reported as InvalidCas
casMismatch_AlwaysInvalidCas(v, itm) == "InvalidCas"

\* VBucket::processSet: the status of a CAS that does not match the value's
casMismatch(v, itm) ==
    IF v.temp = "NonExistent" THEN "NotFound"
    ELSE IF (v.temp = "Deleted" \/ v.deleted) /\ ~itm.deleted
    THEN "NotFound"
    ELSE "InvalidCas"

\* VBucket::processSet, with its CAS, lock and expiry checks
processSet_Cas(v, itm, cas, allowExisting, hasMetaData, storeIfStatus, maybeKeyExists, env) ==
    IF ~env.hasMemory THEN Hbl(v, "NoMem", FALSE)
    ELSE IF ~v.there /\ itm.deleted /\ cas # 0
            /\ ~env.deletedItemsAlwaysResident
    THEN Hbl(v, "NeedBgFetch", FALSE)
    ELSE IF env.eviction = "Full" /\ maybeKeyExists
            /\ (cas # 0 \/ storeIfStatus = "GetItemInfo")
            /\ (~v.there \/ v.temp = "Init")
    THEN Hbl(v, "NeedBgFetch", FALSE)
    ELSE
    LET expired == v.there /\ isExpired_At(v, RealTime) /\ ~hasMetaData
                   /\ ~itm.deleted
        v1 == IF expired /\ v.locked THEN unlock(v) ELSE v
    IN IF expired /\ cas # 0 THEN Hbl(v1, "NotFound", FALSE)
       ELSE IF v1.there
       THEN IF ~allowExisting /\ ~isTempItem_Hbl(v1) /\ ~v1.deleted
            THEN Hbl(v1, "InvalidCas", FALSE)
            ELSE IF v1.locked /\ cas # v1.cas
            THEN Hbl(v1, "IsLocked", FALSE)
            ELSE IF ~v1.locked /\ cas # 0 /\ cas # v1.cas
            THEN Hbl(v1, casMismatch(v1, itm), FALSE)
            ELSE
            LET v2 == unlock(v1)
                itm2 == IF hasMetaData THEN itm
                        ELSE [itm EXCEPT !.revSeqno = v2.revSeqno + 1]
            IN IF replacesDeleted(v2, itm, cas, hasMetaData)
               THEN Hbl(v2, "NotFound", FALSE)
               ELSE updateStoredValue_Hbl(v2, itm2)
       ELSE IF cas # 0 THEN Hbl(v1, "NotFound", FALSE)
       ELSE Hbl(addNewStoredValue_Hbl(itm, ~hasMetaData), "WasClean", TRUE)

\* VBucket::set, its switch on the status: what the client is told
setStatus(status, cas_op) ==
    CASE status = "NoMem" -> "ENOMEM"
      [] status = "InvalidCas" -> "KEY_EEXISTS"
      [] status = "IsLocked" -> "LOCKED"
      [] status = "NotFound" /\ cas_op -> "KEY_ENOENT"
      [] status = "NeedBgFetch" -> "EWOULDBLOCK"
      [] status = "IsPendingSyncWrite" -> "SYNC_WRITE_IN_PROGRESS"
      [] OTHER -> "SUCCESS"

\* the surroundings of a write: eviction policy, memory, kind of bucket
WriteEnvs ==
    [eviction : {"Value", "Full"}, hasMemory : BOOLEAN,
     deletedItemsAlwaysResident : BOOLEAN]

\* nothing done yet on the value under the lock
NoWrite == [op |-> "none"]

InitHbl ==
    /\ Construct(<< <<"A", "B">> >>, Keys)
    /\ lastCall = NoLog
    /\ ExtInitExcept("hbl")
    /\ \E v \in StoredValues :
           hbl = [v |-> v, before |-> v, last |-> NoWrite, status |-> "",
                  ret |-> "", queued |-> FALSE]

\* a write reaches VBucket::processSet with the bucket lock held
ProcessSet ==
    /\ hbl.last = NoWrite
    /\ \E deleted \in BOOLEAN, cas \in 0..MaxCas, allowExisting \in BOOLEAN,
          hasMetaData \in BOOLEAN,
          storeIfStatus \in {"Continue", "GetItemInfo"},
          maybeKeyExists \in BOOLEAN, env \in WriteEnvs :
           LET r == processSet_Cas(hbl.v, WriteItem_Hbl(deleted, hasMetaData),
                                   cas, allowExisting, hasMetaData,
                                   storeIfStatus, maybeKeyExists, env)
           IN hbl' = [v |-> r.v, before |-> hbl.v,
                      last |-> [op |-> "processSet", deleted |-> deleted,
                                cas |-> cas,
                                allowExisting |-> allowExisting,
                                hasMetaData |-> hasMetaData,
                                storeIfStatus |-> storeIfStatus,
                                maybeKeyExists |-> maybeKeyExists,
                                env |-> env],
                      status |-> r.status,
                      ret |-> setStatus(r.status, cas # 0),
                      queued |-> r.queued]
    /\ FrameExcept("hbl")

\* HashTable::unlocked_softDelete: a prepare in flight is not deleted
softDeleteStoredValue_Hbl(v) ==
    IF v.committed = "Pending"
    THEN Hbl(v, "IsPendingSyncWrite", FALSE)
    ELSE Hbl([v EXCEPT !.deleted = TRUE, !.temp = "No", !.dirty = TRUE,
                       !.locked = FALSE],
             "Success", TRUE)

\* VBucket::processSoftDelete, with its lock and CAS checks
processSoftDelete_Cas(v, cas, metadata, use_meta, env) ==
    IF v.temp = "Init" /\ env.eviction = "Full"
    THEN Hbl(v, "NeedBgFetch", FALSE)
    ELSE IF v.locked /\ cas # v.cas THEN Hbl(v, "IsLocked", FALSE)
    ELSE
    LET v1 == unlock(v)
    IN IF cas # 0 /\ cas # v1.cas THEN Hbl(v1, "InvalidCas", FALSE)
       ELSE
       LET rv == IF v1.dirty THEN "WasDirty" ELSE "WasClean"
           v2 == IF use_meta
                 THEN [v1 EXCEPT !.cas = metadata.cas,
                                 !.flags = metadata.flags,
                                 !.exptime = metadata.exptime]
                 ELSE v1
           v3 == [v2 EXCEPT !.revSeqno = metadata.revSeqno]
           r == softDeleteStoredValue_Hbl(v3)
       IN IF r.status = "Success" THEN Hbl(r.v, rv, TRUE)
          ELSE Hbl(r.v, "IsPendingSyncWrite", FALSE)

\* VBucket::processExpiredItem
processExpiredItem_Hbl(v, env) ==
    IF v.temp = "Init" /\ env.eviction = "Full"
    THEN Hbl(v, "NeedBgFetch", TRUE)
    ELSE LET r == softDeleteStoredValue_Hbl(
                      [v EXCEPT !.revSeqno = v.revSeqno + 1])
         IN IF r.status = "Success" THEN Hbl(r.v, "NotFound", TRUE)
            ELSE Hbl(r.v, "IsPendingSyncWrite", FALSE)

\* what a delete hands back: the value now under the key, what the client
\* is told, whether an item was queued
Deleted(v, status, ret, queued) ==
    [v |-> v, status |-> status, ret |-> ret, queued |-> queued]

\* VBucket::addTempStoredValue, the temp initial value it leaves
TempInitialValue == [NoValue_Hbl EXCEPT !.there = TRUE, !.temp = "Init"]

\* VBucket::deleteItem, its switch on the status
deleteItemStatus(status) ==
    CASE status = "NoMem" -> "ENOMEM"
      [] status = "InvalidCas" -> "KEY_EEXISTS"
      [] status = "IsLocked" -> "LOCKED_TMPFAIL"
      [] status = "NotFound" -> "KEY_ENOENT"
      [] status = "NeedBgFetch" -> "logic_error"
      [] status = "IsPendingSyncWrite" -> "SYNC_WRITE_IN_PROGRESS"
      [] OTHER -> "SUCCESS"

\* VBucket::deleteItem without durability, the collection of the key alive
deleteItem_Hbl(v, cas, maybeKeyExists, env, vbState) ==
    IF ~v.there \/ v.deleted \/ isTempItem_Hbl(v)
    THEN IF env.eviction = "Value" THEN Deleted(v, "", "KEY_ENOENT", FALSE)
         ELSE IF ~v.there
         THEN IF maybeKeyExists
              THEN Deleted(TempInitialValue, "", "EWOULDBLOCK", FALSE)
              ELSE Deleted(v, "", "KEY_ENOENT", FALSE)
         ELSE IF v.temp = "Init" THEN Deleted(v, "", "EWOULDBLOCK", FALSE)
         ELSE IF v.temp \in {"NonExistent", "Deleted"}
         THEN Deleted(NoValue_Hbl, "", "KEY_ENOENT", FALSE)
         ELSE Deleted(v, "", "KEY_ENOENT", FALSE)
    ELSE
    LET v1 == IF v.locked /\ vbState \in {"replica", "pending"}
              THEN unlock(v) ELSE v
        r == IF isExpired_At(v1, RealTime)
             THEN processExpiredItem_Hbl(v1, env)
             ELSE processSoftDelete_Cas(v1, cas,
                      [cas |-> 0, flags |-> 0, exptime |-> 0,
                       revSeqno |-> v1.revSeqno + 1], FALSE, env)
    IN Deleted(r.v, r.status, deleteItemStatus(r.status), r.queued)

\* VBucket::deleteWithMeta, its switch on the status
deleteWithMetaStatus(status) ==
    CASE status = "NoMem" -> "ENOMEM"
      [] status = "InvalidCas" -> "KEY_EEXISTS"
      [] status = "IsLocked" -> "LOCKED_TMPFAIL"
      [] status = "NotFound" -> "KEY_ENOENT"
      [] status = "NeedBgFetch" -> "EWOULDBLOCK"
      [] status = "IsPendingSyncWrite" -> "SYNC_WRITE_IN_PROGRESS"
      [] OTHER -> "SUCCESS"

\* VBucket::deleteWithMeta of a document without xattrs, the collection of
\* the key alive; resolves: what the conflict resolver says
deleteWithMeta_Hbl(v, cas, itemMeta, checkConflicts, resolves, maybeKeyExists, env, vbState) ==
    IF checkConflicts /\ v.there /\ v.temp = "Init"
    THEN Deleted(v, "", "EWOULDBLOCK", FALSE)
    ELSE IF checkConflicts /\ v.there /\ ~resolves
    THEN Deleted(v, "", "KEY_EEXISTS", FALSE)
    ELSE IF checkConflicts /\ ~v.there /\ maybeKeyExists
    THEN Deleted(TempInitialValue, "", "EWOULDBLOCK", FALSE)
    ELSE IF ~v.there /\ ~env.hasMemory
    THEN Deleted(v, "", "ENOMEM", FALSE)
    ELSE
    LET v1 == IF ~v.there
              THEN [TempInitialValue EXCEPT
                        !.temp = "Deleted",
                        !.cas = IF checkConflicts THEN 0 ELSE cas]
              ELSE IF ~checkConflicts /\ v.temp = "Init"
              THEN [v EXCEPT !.temp = "Deleted", !.cas = cas]
              ELSE v
        v2 == IF v1.locked /\ vbState \in {"replica", "pending"}
              THEN unlock(v1) ELSE v1
        r == processSoftDelete_Cas(v2, cas, itemMeta, TRUE, env)
    IN Deleted(r.v, r.status, deleteWithMetaStatus(r.status), r.queued)

\* the metadata a deleteWithMeta brings
ItemMetaDatas ==
    [cas : {NextHlcCas}, flags : {1}, exptime : {0}, revSeqno : {5}]

\* a front-end delete of the key
DeleteItem_Hbl ==
    /\ hbl.last = NoWrite
    /\ \E cas \in 0..MaxCas, maybeKeyExists \in BOOLEAN, env \in WriteEnvs,
          vbState \in {"active", "replica"} :
           LET r == deleteItem_Hbl(hbl.v, cas, maybeKeyExists, env, vbState)
           IN hbl' = [v |-> r.v, before |-> hbl.v,
                      last |-> [op |-> "deleteItem", cas |-> cas,
                                maybeKeyExists |-> maybeKeyExists,
                                env |-> env, vbState |-> vbState],
                      status |-> r.status, ret |-> r.ret,
                      queued |-> r.queued]
    /\ FrameExcept("hbl")

\* a delete that brings its metadata (XDCR, DCP)
DeleteWithMeta_Hbl ==
    /\ hbl.last = NoWrite
    /\ \E cas \in 0..MaxCas, itemMeta \in ItemMetaDatas,
          checkConflicts \in BOOLEAN, resolves \in BOOLEAN,
          maybeKeyExists \in BOOLEAN, env \in WriteEnvs,
          vbState \in {"active", "replica"} :
           LET r == deleteWithMeta_Hbl(hbl.v, cas, itemMeta, checkConflicts,
                                       resolves, maybeKeyExists, env,
                                       vbState)
           IN hbl' = [v |-> r.v, before |-> hbl.v,
                      last |-> [op |-> "deleteWithMeta", cas |-> cas,
                                itemMeta |-> itemMeta,
                                checkConflicts |-> checkConflicts,
                                resolves |-> resolves,
                                maybeKeyExists |-> maybeKeyExists,
                                env |-> env, vbState |-> vbState],
                      status |-> r.status, ret |-> r.ret,
                      queued |-> r.queued]
    /\ FrameExcept("hbl")

NextHbl == ProcessSet \/ DeleteItem_Hbl \/ DeleteWithMeta_Hbl
SpecHbl == InitHbl /\ [][NextHbl]_vars

(***************************************************************************)
(* The hash-bucket lock and the observer callbacks: the steps each public  *)
(* operation of VBucket takes, on its successful path, between taking the  *)
(* bucket lock of its key and returning.  Two threads work on keys of the  *)
(* same bucket.                                                            *)
(***************************************************************************)
\* the steps of each operation, in the order of its code; the lock taken by
\* findForWrite or getLockedBucket is held until "unlock", or else until the
\* operation returns and the lock goes out of scope
StepsOf ==
    [set |-> <<"findForWrite", "process", "notifyNewSeqno", "return">>,
     replace |-> <<"findForWrite", "process", "notifyNewSeqno", "return">>,
     add |-> <<"findForWrite", "process", "notifyNewSeqno", "return">>,
     deleteItem |->
         <<"findForWrite", "process", "notifyNewSeqno", "return">>,
     setWithMeta |->
         <<"findForWrite", "process", "unlock", "notifyNewSeqno", "return">>,
     deleteWithMeta |->
         <<"findForWrite", "process", "unlock", "notifyNewSeqno", "return">>,
     addBackfillItem |->
         <<"findForWrite", "process", "unlock", "notifyNewSeqno", "return">>,
     deleteExpiredItem |->
         <<"findForWrite", "process", "unlock", "notifyNewSeqno", "return">>,
     fetchValidValue |->
         <<"findForWrite", "process", "notifyNewSeqno", "return">>,
     commit |->
         <<"findForWrite", "process", "notifyNewSeqno",
           "notifyClientOfSyncWriteComplete", "return">>,
     abort |->
         <<"findForWrite", "process", "notifyNewSeqno",
           "notifyClientOfSyncWriteComplete", "return">>]

PublicOps == DOMAIN StepsOf

\* no callback made yet
NoCallback == [op |-> "none", cb |-> "none", holdsLock |-> FALSE]

\* the step thread t is about to take
NextStep(t) == StepsOf[hbl.op[t]][hbl.pc[t]]

InitLocks ==
    /\ Construct(<< <<"A", "B">> >>, Keys)
    /\ lastCall = NoLog
    /\ ExtInitExcept("hbl")
    /\ hbl = [holder |-> "free",
              op |-> [t \in Threads |-> "idle"],
              pc |-> [t \in Threads |-> 0],
              callback |-> NoCallback]

\* a thread enters a public operation
Enter(t, op) ==
    /\ hbl.op[t] = "idle"
    /\ hbl' = [hbl EXCEPT !.op[t] = op, !.pc[t] = 1]
    /\ FrameExcept("hbl")

\* HashTable::findForWrite, getLockedBucket: the thread takes the bucket
\* lock, waiting while another thread holds it
FindForWrite(t) ==
    /\ hbl.op[t] # "idle" /\ NextStep(t) = "findForWrite"
    /\ hbl.holder = "free"
    /\ hbl' = [hbl EXCEPT !.holder = t, !.pc[t] = @ + 1]
    /\ FrameExcept("hbl")

\* the work on the stored value, under the lock
Process(t) ==
    /\ hbl.op[t] # "idle" /\ NextStep(t) = "process"
    /\ hbl.holder = t
    /\ hbl' = [hbl EXCEPT !.pc[t] = @ + 1]
    /\ FrameExcept("hbl")

\* hbl.getHTLock().unlock()
Unlock(t) ==
    /\ hbl.op[t] # "idle" /\ NextStep(t) = "unlock"
    /\ hbl' = [hbl EXCEPT !.holder = "free", !.pc[t] = @ + 1]
    /\ FrameExcept("hbl")

\* VBucket::notifyNewSeqno, VBucket::notifyClientOfSyncWriteComplete: the
\* observer's callback runs on the calling thread
Notify(t) ==
    /\ hbl.op[t] # "idle"
    /\ NextStep(t) \in {"notifyNewSeqno", "notifyClientOfSyncWriteComplete"}
    /\ hbl' = [hbl EXCEPT !.pc[t] = @ + 1,
                          !.callback = [op |-> hbl.op[t], cb |-> NextStep(t),
                                        holdsLock |-> hbl.holder = t]]
    /\ FrameExcept("hbl")

\* the operation returns: a lock still held goes out of scope
Return(t) ==
    /\ hbl.op[t] # "idle" /\ NextStep(t) = "return"
    /\ hbl' = [hbl EXCEPT !.holder = IF @ = t THEN "free" ELSE @,
                          !.op[t] = "idle", !.pc[t] = 0]
    /\ FrameExcept("hbl")

NextLocks ==
    \/ \E t \in Threads, op \in PublicOps : Enter(t, op)
    \/ \E t \in Threads : FindForWrite(t)
    \/ \E t \in Threads : Process(t)
    \/ \E t \in Threads : Unlock(t)
    \/ \E t \in Threads : Notify(t)
    \/ \E t \in Threads : Return(t)

SpecLocks == InitLocks /\ [][NextLocks]_vars

(***************************************************************************)
(* Durable writes with a finite timeout while the cluster manager changes  *)
(* the state of the vBucket: the clock advances and the timeout task keeps *)
(* being run with the time of the clock.  Topology [[A,B]]; the replica    *)
(* never acks.                                                             *)
(***************************************************************************)
InitLive == Construct(<< <<"A", "B">> >>, Keys) /\ lastCall = NoLog /\ ExtInit

\* a durable write that times out after a millisecond, accepted early
\* enough for the clock to pass its deadline
LiveWrites ==
    \E key \in Keys :
        /\ now < MaxTime
        /\ Set(key, [level |-> "Majority", timeout |-> [kind |-> "Ms", ms |-> 1]],
               TRUE)

\* the timeout task runs VBucket::processDurabilityTimeout with the time of
\* the clock
TimeoutTaskNow == ProcessDurabilityTimeout(now)

NextLiveSteady ==
    \/ LiveWrites
    \/ Tick
    \/ TimeoutTaskNow

\* the vBucket stays active under its first topology
SpecLiveSteady ==
    /\ InitLive
    /\ [][NextLiveSteady]_vars
    /\ WF_vars(Tick)
    /\ WF_vars(TimeoutTaskNow)

NextLive ==
    \/ LiveWrites
    \/ Tick
    \/ TimeoutTaskNow
    \/ StateChanges

\* the clock and the timeout task are never held up for ever
SpecLive ==
    /\ InitLive
    /\ [][NextLive]_vars
    /\ WF_vars(Tick)
    /\ WF_vars(TimeoutTaskNow)

(***************************************************************************)
(* The operations parked on a pending vBucket.  A front-end thread that    *)
(* finds the vBucket pending hands its cookie to addPendingOp; fireAllOps  *)
(* drains the queue once the state is no longer pending.  pendingOpLock    *)
(* guards the queue and pendingOpsStart; VBucket::state is atomic and      *)
(* setState changes it without taking pendingOpLock.                       *)
(***************************************************************************)
\* the connections that may park an operation, each with its cookie
PendingCookies == {"c1", "c2"}
\* the threads that run fireAllOps
Firers == {"f1", "f2"}
\* std::chrono::steady_clock::time_point(): the epoch, "no timer running"
SteadyClockEpoch == 0
\* what steady_clock::now() reads: a time after the epoch
SteadyClockNow == 1

NewPendingOps ==
    [queue |-> <<>>,
     pendingOpsStart |-> SteadyClockEpoch,
     pendingOpLock |-> "free",
     pc |-> [t \in PendingCookies \cup Firers |-> "idle"],
     code |-> [f \in Firers |-> ""],
     op |-> [f \in Firers |-> ""],
     accepted |-> [c \in PendingCookies |-> "notCalled"],
     seen |-> [c \in PendingCookies |-> {}],
     fired |-> [c \in PendingCookies |-> <<>>]]

InitPendingOps ==
    /\ Construct(<< <<"A", "B">> >>, Keys)
    /\ lastCall = NoLog
    /\ ExtInitExcept("pendingOps")
    /\ pendingOps = NewPendingOps

\* VBucket::addPendingOp, LockHolder lh(pendingOpLock)
AddPendingOp_Lock(cookie) ==
    /\ pendingOps.pc[cookie] = "idle"
    /\ pendingOps.accepted[cookie] = "notCalled"
    /\ pendingOps.pendingOpLock = "free"
    /\ pendingOps' = [pendingOps EXCEPT !.pendingOpLock = cookie,
                                        !.pc[cookie] = "locked"]
    /\ FrameExcept("pendingOps")

\* VBucket::addPendingOp under the lock: refused unless the state read now
\* is pending; the first cookie of an empty queue starts the timer
AddPendingOp(cookie) ==
    /\ pendingOps.pc[cookie] = "locked"
    /\ pendingOps' =
           IF state # "pending"
           THEN [pendingOps EXCEPT !.accepted[cookie] = "false",
                                   !.pendingOpLock = "free",
                                   !.pc[cookie] = "returned"]
           ELSE [pendingOps EXCEPT
                     !.pendingOpsStart = IF pendingOps.queue = <<>>
                                         THEN SteadyClockNow ELSE @,
                     !.queue = Append(@, cookie),
                     !.accepted[cookie] = "true",
                     !.pendingOpLock = "free",
                     !.pc[cookie] = "returned"]
    /\ FrameExcept("pendingOps")

\* VBucket::fireAllOps(engine): the code follows the state read here, with
\* no lock held; nothing is fired while the vBucket is pending
FireAllOps(f) ==
    /\ pendingOps.pc[f] = "idle"
    /\ pendingOps' =
           IF state = "pending"
           THEN pendingOps
           ELSE [pendingOps EXCEPT
                     !.code[f] = IF state = "active"
                                 THEN "SUCCESS" ELSE "NOT_MY_VBUCKET",
                     !.pc[f] = "fireAllOps"]
    /\ FrameExcept("pendingOps")

\* VBucket::fireAllOps(engine, code) up to its loop: takes the lock, returns
\* if no timer is running, resets the timer
FireAllOps_Lock(f) ==
    /\ pendingOps.pc[f] = "fireAllOps"
    /\ pendingOps.pendingOpLock = "free"
    /\ pendingOps' =
           IF pendingOps.pendingOpsStart > SteadyClockEpoch
           THEN [pendingOps EXCEPT !.pendingOpsStart = SteadyClockEpoch,
                                   !.pendingOpLock = f,
                                   !.pc[f] = "loop"]
           ELSE [pendingOps EXCEPT !.pc[f] = "idle"]
    /\ FrameExcept("pendingOps")

\* the loop of fireAllOps, with the lock: takes the last cookie off the
\* queue and unlocks, or returns once the queue is empty
FireAllOps_Pop(f) ==
    /\ pendingOps.pc[f] = "loop"
    /\ pendingOps' =
           IF pendingOps.queue = <<>>
           THEN [pendingOps EXCEPT !.pendingOpLock = "free",
                                   !.pc[f] = "idle"]
           ELSE [pendingOps EXCEPT
                     !.op[f] = pendingOps.queue[Len(pendingOps.queue)],
                     !.queue = SubSeq(@, 1, Len(@) - 1),
                     !.pendingOpLock = "free",
                     !.pc[f] = "notify"]
    /\ FrameExcept("pendingOps")

\* engine.notifyIOComplete(pendingOperation, code), without the lock
FireAllOps_Notify(f) ==
    /\ pendingOps.pc[f] = "notify"
    /\ LET cookie == pendingOps.op[f]
       IN pendingOps' =
              [pendingOps EXCEPT
                   !.fired[cookie] =
                       Append(@, [code |-> pendingOps.code[f],
                                  seen |-> pendingOps.seen[cookie],
                                  state |-> state]),
                   !.op[f] = "",
                   !.pc[f] = "relock"]
    /\ FrameExcept("pendingOps")

\* lh.lock() at the end of the loop body
FireAllOps_Relock(f) ==
    /\ pendingOps.pc[f] = "relock"
    /\ pendingOps.pendingOpLock = "free"
    /\ pendingOps' = [pendingOps EXCEPT !.pendingOpLock = f,
                                        !.pc[f] = "loop"]
    /\ FrameExcept("pendingOps")

\* setState while operations are parked: the state changes with no
\* pendingOpLock taken and fireAllOps is not called; history: the states
\* other than pending the vBucket has entered since a cookie was accepted
PendingOps_SetState(to) ==
    /\ SetState_Vb(to, IF to = "active" THEN << <<"A", "B">> >> ELSE Null)
    /\ pendingOps' =
           [pendingOps EXCEPT
                !.seen = [c \in PendingCookies |->
                              IF /\ pendingOps.accepted[c] = "true"
                                 /\ pendingOps.fired[c] = <<>>
                                 /\ to # "pending"
                              THEN pendingOps.seen[c] \cup {to}
                              ELSE pendingOps.seen[c]]]
    /\ UNCHANGED <<request, store, replica, hp, manifest, hbl>>

FireSteps(f) ==
    \/ FireAllOps(f)
    \/ FireAllOps_Lock(f)
    \/ FireAllOps_Pop(f)
    \/ FireAllOps_Notify(f)
    \/ FireAllOps_Relock(f)

NextPendingOps ==
    \/ \E cookie \in PendingCookies : AddPendingOp_Lock(cookie)
    \/ \E cookie \in PendingCookies : AddPendingOp(cookie)
    \/ \E f \in Firers : FireSteps(f)
    \/ \E to \in VBStates : PendingOps_SetState(to)

SpecPendingOps == InitPendingOps /\ [][NextPendingOps]_vars

\* the same with the notification task scheduled: a thread inside
\* addPendingOp or fireAllOps runs on, and fireAllOps is called again
\* and again
SpecPendingOpsLive ==
    /\ SpecPendingOps
    /\ \A cookie \in PendingCookies : WF_vars(AddPendingOp(cookie))
    /\ \A f \in Firers : WF_vars(FireSteps(f))

(***************************************************************************)
(* Properties.                                                             *)
(***************************************************************************)
PersistLevels == {"MajorityAndPersistOnMaster", "PersistToMajority"}

\* the item queued at seqno s
ItemAt(s) == ckpt[CHOOSE i \in 1..Len(ckpt) : ckpt[i].bySeqno = s]

\* the nodes of a chain whose last write seqno has reached s
NodesAt(chain, s) ==
    {n \in ChainNodes(chain) :
        IF n = Active THEN hps >= s ELSE pos[n].w >= s}

\* C1: a prepare is committed only if in every chain of the topology at
\* least a majority of the nodes have a last write seqno at or above the
\* seqno of the prepare, and, for the two persist levels, the active has
\* persisted it; a majority in only one of two chains commits nothing.
C1_CommitNeedsMajorityOfEveryChain ==
    \A i \in 1..Len(ckpt) :
        ckpt[i].op = "commit" =>
            LET s == ckpt[i].svSeqno
            IN /\ \A c \in 1..Len(topology) :
                      Cardinality(NodesAt(topology[c], s))
                          >= (Len(topology[c]) \div 2) + 1
               /\ ItemAt(s).level \in PersistLevels => persistenceSeqno >= s

\* a PersistToMajority prepare is committed under two chains
C1_Witness ==
    /\ Len(topology) = 2
    /\ \E i \in 1..Len(ckpt) :
           /\ ckpt[i].op = "commit"
           /\ ItemAt(ckpt[i].svSeqno).level = "PersistToMajority"

\* C3: on the active and on the passive monitor, while a tracked
\* PersistToMajority prepare is not locally persisted the high prepared
\* seqno stays below its seqno, whatever prepares follow it.
C3_PersistToMajorityFencesHPS ==
    \A i \in 1..Len(tracked) :
        (tracked[i].level = "PersistToMajority"
             /\ persistenceSeqno < tracked[i].seqno)
            => hps < tracked[i].seqno

\* a replica tracks a prepare of another level behind an unpersisted
\* PersistToMajority one
C3_Witness ==
    /\ state = "replica"
    /\ \E i, j \in 1..Len(tracked) :
           /\ i < j
           /\ tracked[i].level = "PersistToMajority"
           /\ persistenceSeqno < tracked[i].seqno
           /\ tracked[j].level # "PersistToMajority"

\* a durable write of any of the four kinds
DurableWrite ==
    \E key \in Keys, dur \in Requirements, hasMemory \in BOOLEAN :
        \/ Set(key, dur, hasMemory)
        \/ Add(key, dur, hasMemory)
        \/ Replace(key, dur, hasMemory)
        \/ DeleteItem(key, dur)

\* some chain has fewer defined nodes than its majority
SomeChainLacksMajority ==
    \E c \in 1..Len(topology) :
        Cardinality({i \in 1..Len(topology[c]) : topology[c][i] # Null})
            < (Len(topology[c]) \div 2) + 1

\* C4: a durable set, add, replace or deleteItem on an active vBucket whose
\* topology has a chain with fewer defined nodes than its majority returns
\* DurabilityImpossible and queues nothing: the tracked prepares, the hash
\* table and the checkpoint (so its high seqno) are unchanged.
C4_DurabilityImpossibleIsNeverQueued ==
    [][(state = "active" /\ SomeChainLacksMajority /\ DurableWrite)
          => /\ result' = "DURABILITY_IMPOSSIBLE"
             /\ Len(tracked') = Len(tracked)
             /\ ht' = ht
             /\ HighSeqnoOf(ckpt') = HighSeqnoOf(ckpt)
             /\ ckpt' = ckpt]_vars

\* a durable write was rejected after normal mutations had been stored
C4_Witness ==
    /\ result = "DURABILITY_IMPOSSIBLE"
    /\ SomeChainLacksMajority
    /\ Len(ckpt) > 0

\* C10: under the topology [[A,B]], when a Majority prepare at seqno s is
\* the tracked prepare, the first ack of B with a seqno at or above s commits
\* it: the commit item is queued at the next seqno, the cookie of the
\* prepare is notified Success and nothing is tracked any more.
C10_AckOfTheReplicaCommits ==
    [][\A a \in 1..MaxSeqno :
          (/\ topology = << <<"A", "B">> >>
           /\ Len(tracked) = 1
           /\ tracked[1].level = "Majority"
           /\ a >= tracked[1].seqno
           /\ SeqnoAcknowledged("B", a))
          => /\ tracked' = <<>>
             /\ Len(ckpt') = Len(ckpt) + 1
             /\ ckpt'[Len(ckpt')].op = "commit"
             /\ ckpt'[Len(ckpt')].key = tracked[1].key
             /\ ckpt'[Len(ckpt')].bySeqno = getHighSeqno + 1
             /\ ht'[tracked[1].key].p = NoSV
             /\ ht'[tracked[1].key].c.committed = "CommittedViaPrepare"
             /\ notified' = Append(notified, [cookie |-> tracked[1].cookie,
                                              status |-> "SUCCESS"])
             /\ result' = "SUCCESS"]_vars

\* the scenario itself: a prepare at seqno 1, the ack of B, the commit at 2
C10_Witness ==
    /\ topology = << <<"A", "B">> >>
    /\ Len(ckpt) = 2
    /\ ckpt[1].op = "prepare" /\ ckpt[1].level = "Majority"
    /\ ckpt[2].op = "commit" /\ ckpt[2].bySeqno = 2
    /\ tracked = <<>>
    /\ notified = <<[cookie |-> 1, status |-> "SUCCESS"]>>
    /\ pos["B"].a >= 1

\* the tracked prepares whose deadline, the time they were tracked plus
\* their timeout, is at or before asOf
Due(asOf) ==
    {i \in 1..Len(tracked) :
        /\ tracked[i].timeout # Infinity
        /\ tracked[i].start + tracked[i].timeout.ms <= asOf}

\* the items a step queued
Queued == {i \in 1..Len(ckpt') : i > Len(ckpt)}
\* the notifications a step made
Notified == {i \in 1..Len(notified') : i > Len(notified)}

\* C8: processTimeout(asOf) aborts exactly the tracked prepares whose
\* deadline is at or before asOf, wherever they are in seqno order; all the
\* others stay tracked, in their order, whatever their seqno, and so does
\* every prepare with Timeout::Infinity.
C8_TimeoutAbortsExactlyTheDue ==
    [][\A asOf \in 0..(MaxTime + MaxTimeout + 1) :
          ProcessDurabilityTimeout(asOf)
          => /\ tracked' = SelectSeq(tracked,
                               LAMBDA sw : ~(/\ sw.timeout # Infinity
                                             /\ sw.start + sw.timeout.ms
                                                    <= asOf))
             /\ \A i \in 1..Len(tracked) :
                   (i \in Due(asOf))
                       <=> \E j \in Queued :
                               /\ ckpt'[j].op = "abort"
                               /\ ckpt'[j].prepareSeqno = tracked[i].seqno
             /\ \A j \in Queued : ckpt'[j].op = "abort"]_vars

\* the timeout task has aborted the younger of two prepares and left the
\* older one, whose deadline is later, tracked
C8_Witness ==
    /\ Len(tracked) = 1
    /\ tracked[1].timeout # Infinity
    /\ Len(ckpt) >= 3
    /\ ckpt[Len(ckpt)].op = "abort"
    /\ ckpt[Len(ckpt)].prepareSeqno > tracked[1].seqno

\* C9: when the timeout task aborts the prepare at seqno s, the Pending
\* value of its key leaves the hash table, exactly one abort item with
\* prepareSeqno = s is queued, the cookie is notified SyncWriteAmbiguous
\* (once), the prepare is no longer tracked, and no node position moves:
\* the last write seqno of the active stays where it was.
C9_TimeoutAbort ==
    [][\A asOf \in 0..(MaxTime + MaxTimeout + 1) :
          ProcessDurabilityTimeout(asOf)
          => \A i \in Due(asOf) :
                LET sw == tracked[i]
                IN /\ ht'[sw.key].p = NoSV
                   /\ ht[sw.key].p.bySeqno = sw.seqno
                   /\ Cardinality({j \in Queued :
                          /\ ckpt'[j].op = "abort"
                          /\ ckpt'[j].key = sw.key
                          /\ ckpt'[j].prepareSeqno = sw.seqno}) = 1
                   /\ Cardinality({j \in Notified :
                          notified'[j] =
                              [cookie |-> sw.cookie,
                               status |-> "SYNC_WRITE_AMBIGUOUS"]}) = 1
                   /\ \A j \in 1..Len(tracked') : tracked'[j].seqno # sw.seqno
                   /\ pos' = pos
                   /\ hps' = hps]_vars

\* a Majority prepare at seqno s was aborted by the timeout task, and the
\* active's last write seqno is still s
C9_Witness ==
    /\ Len(ckpt) >= 2
    /\ ckpt[Len(ckpt)].op = "abort"
    /\ ckpt[Len(ckpt)].prepareSeqno = hps
    /\ hps > 0
    /\ tracked = <<>>
    /\ Len(notified) > 0
    /\ notified[Len(notified)].status = "SYNC_WRITE_AMBIGUOUS"

\* the number of times the cookie c was notified
Completions(c) ==
    Cardinality({i \in 1..Len(notified) : notified[i].cookie = c})

\* C5: the cookie of a durable write that was accepted with EWOULDBLOCK is
\* completed at most once in the whole run, by a commit (Success) or by an
\* abort or timeout (SyncWriteAmbiguous), whatever acks, persistence
\* notifications, timeouts and outside calls of commit and abort happen.
C5_CookieCompletedAtMostOnce ==
    \A c \in 1..MaxSeqno : Completions(c) <= 1

\* a prepare was resolved from outside, its key was prepared again, and the
\* monitor then completed the cookie of the first prepare
C5_Witness ==
    \E i, j, k \in 1..Len(ckpt) :
        /\ i < j /\ j < k
        /\ ckpt[i].op = "prepare"
        /\ ckpt[j].op = "prepare"
        /\ ckpt[j].key = ckpt[i].key
        /\ ckpt[k].op \in {"commit", "abort"}
        /\ Completions(ckpt[i].bySeqno) = 1
        /\ Completions(ckpt[j].bySeqno) = 0
        /\ result = "logic_error"

\* C6: on an active vBucket every item that is queued with a generated
\* seqno gets a seqno above every seqno given out before it, however the
\* writes of two threads on different keys and the commits interleave.
C6_SeqnosStrictlyIncrease ==
    \A i, j \in 1..Len(ckpt) : i < j => ckpt[i].bySeqno < ckpt[j].bySeqno

\* the items of the two threads and a commit have interleaved
C6_Witness ==
    /\ Len(ckpt) = MaxSeqno
    /\ ckpt[1].key # ckpt[2].key
    /\ \E i \in 1..Len(ckpt) : ckpt[i].op = "commit"
    /\ \E i \in 1..Len(ckpt) : ckpt[i].op = "abort"

\* C7: however concurrent durable writes interleave, the prepares enter
\* the tracked list of the monitor in the order in which the checkpoint
\* gave them their seqnos: the tracked list ascends strictly by seqno.
C7_TrackedInSeqnoOrder ==
    \A i, j \in 1..Len(tracked) :
        i < j => tracked[i].seqno < tracked[j].seqno

\* two prepares of two threads are tracked, and the second thread had to
\* wait for the mutex
C7_Witness ==
    /\ Len(tracked) = 2
    /\ tracked[1].key # tracked[2].key
    /\ threads = [t \in Threads |-> Idle]

\* the scenario: the first three items are prepares at the levels Majority,
\* PersistToMajority, Majority under [[A,B,C]], and B and C have acked
\* through seqno 3
FencePrepares ==
    /\ topology = << <<"A", "B", "C">> >>
    /\ Len(ckpt) >= 3
    /\ \A i \in 1..3 : ckpt[i].op = "prepare" /\ ckpt[i].bySeqno = i
    /\ ckpt[1].level = "Majority"
    /\ ckpt[2].level = "PersistToMajority"
    /\ ckpt[3].level = "Majority"
FenceAcked == pos["B"].a >= 3 /\ pos["C"].a >= 3

\* the commit items of the prepare at seqno s
CommitsOf(s) ==
    {i \in 1..Len(ckpt) : ckpt[i].op = "commit" /\ ckpt[i].svSeqno = s}

CommitItems == {i \in 1..Len(ckpt) : ckpt[i].op = "commit"}

\* a prepare that waits for the persistence of the active, ahead of a
\* Majority prepare that does not
OvertakenBy(older, newer) ==
    /\ ItemAt(older).level \in PersistLevels
    /\ ItemAt(newer).level = "Majority"

C12_AckBelowLastAckIsRejected ==
    [][\A n \in Replicas, s \in 1..MaxSeqno :
          (n \in TopologyNodes(topology) /\ SeqnoAcknowledged(n, s))
          => IF s < pos[n].a
             THEN /\ result' = "logic_error"
                  /\ UNCHANGED <<pos, tracked, hps, ckpt, ht, notified>>
             ELSE /\ result' = "SUCCESS"
                  /\ pos'[n].a = s]_vars

\* an ack below the last ack of the node was rejected while a prepare is
\* tracked
C12_Witness ==
    /\ lastCall.op = "seqnoAcknowledged"
    /\ lastCall.node \in Replicas \cap TopologyNodes(topology)
    /\ lastCall.seqno < pos[lastCall.node].a
    /\ result = "logic_error"
    /\ tracked # <<>>

\* C13: an ack of a node that is in no chain of the topology returns without
\* error and changes nothing: no node position, no tracked prepare, no
\* commit.
C13_AckOfUnknownNodeIsIgnored ==
    [][\A n \in Replicas \cup {Unknown}, s \in 1..MaxSeqno :
          (n \notin TopologyNodes(topology) /\ SeqnoAcknowledged(n, s))
          => /\ result' = "SUCCESS"
             /\ UNCHANGED <<pos, tracked, hps, ckpt, ht, notified>>]_vars

\* a node outside the topology acked a seqno at which a prepare is tracked
C13_Witness ==
    /\ lastCall.op = "seqnoAcknowledged"
    /\ lastCall.node \notin TopologyNodes(topology)
    /\ result = "SUCCESS"
    /\ tracked # <<>>
    /\ lastCall.seqno >= tracked[1].seqno

\* C14: under a topology of one chain that holds only the active, every
\* tracked Majority prepare is committed, with no ack of a replica ever
\* received: the next notification of the monitor commits it.
C14_ActiveAloneCommitsMajority ==
    (\E t \in 1..Len(tracked) : tracked[t].level = "Majority")
        ~> /\ tracked = <<>>
           /\ \A i \in 1..Len(ckpt) :
                 ckpt[i].op = "prepare" => CommitsOf(ckpt[i].bySeqno) # {}

\* a Majority prepare is committed and no replica has acked anything
C14_Witness ==
    /\ topology = << <<"A">> >>
    /\ \E i \in CommitItems : ItemAt(ckpt[i].svSeqno).level = "Majority"
    /\ \A n \in Replicas : pos[n] = [w |-> 0, a |-> 0]

\* C15: VBucket::commit and VBucket::abort return KEY_ENOENT when the hash
\* table holds no value at the key and EINVAL when the value found is not
\* Pending, and then queue nothing, consume no seqno, leave the hash table
\* and the monitor as they were and notify no client.
C15_CommitAbortWithoutPending ==
    [][\A key \in Keys, seqno \in 1..MaxSeqno :
          (Commit(key, seqno) \/ Abort(key, seqno))
          => LET v == findForWrite(ht, key)
             IN /\ v = NoSV => result' = "KEY_ENOENT"
                /\ (v # NoSV /\ v.committed # "Pending")
                      => result' = "EINVAL"
                /\ v.committed # "Pending"
                      => UNCHANGED <<ckpt, ht, notified, tracked, hps, pos>>
                /\ v.committed = "Pending" => result' = "SUCCESS"]_vars

\* an abort found a committed value at the key and returned EINVAL
C15_Witness ==
    /\ lastCall.op = "abort"
    /\ result = "EINVAL"
    /\ ht[lastCall.key].p = NoSV
    /\ ht[lastCall.key].c # NoSV

\* the prepare at seqno of the key was committed, or aborted, before
Committed(key, seqno) ==
    \E i \in 1..Len(ckpt) :
        ckpt[i].op = "commit" /\ ckpt[i].key = key /\ ckpt[i].svSeqno = seqno
Aborted(key, seqno) ==
    \E i \in 1..Len(ckpt) :
        ckpt[i].op = "abort" /\ ckpt[i].key = key
            /\ ckpt[i].prepareSeqno = seqno /\ ckpt[i].svSeqno = seqno

\* C16: once the commit (the abort) of the prepare at prepareSeqno of a key
\* was applied, the same commit (abort) applied again leaves the hash table,
\* the checkpoint and the monitor as they were and notifies no client.
C16_ReapplicationChangesNothing ==
    [][\A key \in Keys, seqno \in 1..MaxSeqno :
          (\/ Committed(key, seqno) /\ Commit(key, seqno)
           \/ Aborted(key, seqno) /\ Abort(key, seqno))
          => UNCHANGED <<ht, ckpt, tracked, hps, pos, notified>>]_vars

(***************************************************************************)
(* C17.  A set, replace, deleteItem, setWithMeta or deleteWithMeta that    *)
(* passes memory admission on a key holding a Pending value returns        *)
(* SyncWriteInProgress; it queues nothing, assigns no seqno and leaves     *)
(* the hash table and the durability monitor alone.  The code does not     *)
(* keep this: replace and deleteItem answer KeyEnoent when the Pending     *)
(* value is a prepared delete.                                             *)
(***************************************************************************)
Refused ==
    /\ result' = "SYNC_WRITE_IN_PROGRESS"
    /\ UNCHANGED <<ckpt, ht, tracked, hps, pos, notified>>

C17_WriteOnPendingIsRefused ==
    [][\A key \in Keys : PendingAt(key) =>
         /\ \A dur \in MajorityOrNone :
                \/ Set(key, dur, TRUE)
                \/ Replace(key, dur, TRUE)
                \/ DeleteItem(key, dur)
                => Refused
         /\ DeleteWithMeta(key) => Refused
         /\ \A seqno \in 1..MaxSeqno, dur \in MajorityOrNone :
                SetWithMeta(key, seqno, dur, TRUE) => Refused]_vars

(***************************************************************************)
(* C18.  An add that passes memory admission on a key holding a Pending    *)
(* value, a prepared write or a prepared delete, fails with NotStored or   *)
(* SyncWriteInProgress: it never reports success and never touches the     *)
(* Pending value.  The code does not keep this: over a prepared delete     *)
(* processAdd drops the status of updateStoredValue and add reports        *)
(* success for an item that was never stored.                              *)
(***************************************************************************)
C18_AddOnPendingFails ==
    [][\A key \in Keys, dur \in MajorityOrNone :
         PendingAt(key) /\ Add(key, dur, TRUE) =>
             /\ result' \in {"NOT_STORED", "SYNC_WRITE_IN_PROGRESS"}
             /\ ht'[key].p = ht[key].p]_vars

(***************************************************************************)
(* C19.  On a transition from replica or pending to active, the new        *)
(* active durability monitor tracks exactly the prepares the outgoing      *)
(* passive monitor was tracking: the same seqnos in the same order, none   *)
(* lost and none duplicated.                                               *)
(***************************************************************************)
SeqnosOf(trk) == [i \in 1..Len(trk) |-> trk[i].seqno]

C19_ActiveMonitorKeepsThePassivePrepares ==
    [][\A meta \in StateMetas :
         state \in {"replica", "pending"} /\ SetState("active", meta) =>
             /\ state' = "active"
             /\ SeqnosOf(tracked') = SeqnosOf(tracked)]_vars

\* an active monitor tracking two prepares that were never given a cookie:
\* they were tracked by the passive monitor it was constructed from
C19_Witness ==
    /\ state = "active"
    /\ Len(tracked) >= 2
    /\ \A i \in 1..Len(tracked) : tracked[i].cookie = NoCookie

(***************************************************************************)
(* C20.  When an active vBucket holding Majority prepares at seqnos 1..3   *)
(* becomes replica, the passive monitor tracks those three prepares and    *)
(* its HPS is the HPS the active monitor had.  The code does not keep      *)
(* this: the passive monitor is constructed from the vBucket alone.        *)
(***************************************************************************)
C20_PassiveMonitorKeepsTheActivePrepares ==
    [][/\ state = "active"
       /\ SeqnosOf(tracked) = <<1, 2, 3>>
       /\ \A i \in 1..Len(tracked) : tracked[i].level = "Majority"
       /\ SetState("replica", Null)
       => /\ SeqnosOf(tracked') = <<1, 2, 3>>
          /\ hps' = hps]_vars

(***************************************************************************)
(* C21.  A replication topology is accepted only if it is an array of 1..2 *)
(* chains, each chain an array of 1..4 entries whose first entry is a      *)
(* string and whose other entries are strings or null, no node name twice  *)
(* in a chain; every other topology is refused with invalid_argument.      *)
(***************************************************************************)
WellFormedChain(chain) ==
    /\ chain.t = "array"
    /\ Len(chain.a) \in 1..4
    /\ chain.a[1].t = "string"
    /\ \A k \in 2..Len(chain.a) : chain.a[k].t \in {"string", "null"}
    /\ \A k, l \in 1..Len(chain.a) :
          k # l /\ chain.a[k].t = "string" => chain.a[k] # chain.a[l]

WellFormedTopology(json) ==
    /\ json.t = "array"
    /\ Len(json.a) \in 1..2
    /\ \A i \in 1..Len(json.a) : WellFormedChain(json.a[i])

C21_OnlyWellFormedTopologiesAccepted ==
    lastCall.op = "setState" /\ lastCall.node = "active" =>
        IF WellFormedTopology(request)
        THEN /\ result = "SUCCESS"
             /\ state = "active"
             /\ topology = TopologyOf(request)
        ELSE result = "invalid_argument"

\* a topology of two chains with an undefined slot has been accepted
C21_Witness ==
    /\ lastCall.op = "setState"
    /\ result = "SUCCESS"
    /\ topology = << <<"A", "B">>, <<"A", Null, "B">> >>

(***************************************************************************)
(* C22.  The passive durability monitor refuses addSyncWrite of a prepare  *)
(* whose timeout is the unresolved bucket default, with invalid_argument,  *)
(* and does not track it; a prepare with an explicit timeout or Infinity   *)
(* is tracked.                                                             *)
(***************************************************************************)
C22_PassiveMonitorWantsResolvedTimeout ==
    [][\A key \in Keys, seqno \in 1..MaxSeqno,
          dur \in PassiveDurs \ {NoDur} :
         ~PendingAt(key) /\ SetWithMeta(key, seqno, dur, TRUE) =>
             IF dur.timeout = BucketDefault
             THEN result' = "invalid_argument" /\ tracked' = tracked
             ELSE /\ result' = "SUCCESS"
                  /\ Len(tracked') = Len(tracked) + 1
                  /\ tracked'[Len(tracked')].seqno = seqno
                  /\ tracked'[Len(tracked')].timeout = dur.timeout
                  /\ SubSeq(tracked', 1, Len(tracked)) = tracked]_vars

\* a prepare with the bucket default was refused after one with an
\* explicit timeout had been tracked
C22_Witness ==
    /\ lastCall.op = "setWithMeta"
    /\ result = "invalid_argument"
    /\ Len(tracked) = 1
    /\ tracked[1].timeout.kind = "Ms"


(***************************************************************************)
(* C23: for every key, each version that set, add, replace, deleteItem,    *)
(* expiry or getAndUpdateTtl queues has a revSeqno strictly greater than   *)
(* that of every earlier version of the key, also when the key was         *)
(* deleted, its tombstone purged after persistence, and the key created    *)
(* again.                                                                  *)
(***************************************************************************)
C23_RevSeqnoStrictlyIncreases ==
    \A k \in Keys :
        \A i, j \in DOMAIN store.versions[k] :
            i < j => store.versions[k][i] < store.versions[k][j]

\* the same, as long as no value was dropped whole from the hash table
C23_RevSeqnoIncreasesUnderValueEviction ==
    store.eviction = "Value" => C23_RevSeqnoStrictlyIncreases

\* a key expired, its tombstone was purged, and the key was created again
\* above the greatest deleted revSeqno
C23_Witness ==
    /\ store.eviction = "Value"
    /\ \E k \in Keys :
           /\ store.versions[k] = <<1, 2, 4>>
           /\ store.disk[k].deleted
           /\ store.ht[k].there /\ ~store.ht[k].deleted


RolledBack(rollbackResult) ==
    /\ replica'.failovers =
           SelectSeq(replica.failovers,
                     LAMBDA e : e.by_seqno <= rollbackResult.highSeqno)
    /\ replica'.items = <<>>
    /\ replica'.lastBySeqno = rollbackResult.highSeqno
    /\ replica'.openCheckpointId = 1
    /\ replica'.rollbackItemCount =
           replica.rollbackItemCount
               + (replica.lastBySeqno - rollbackResult.highSeqno)
    /\ ~replica'.receivingInitialDiskSnapshot

C25_RollbackResetsTheReplica ==
    [][\A rollbackResult \in RollbackResults :
          Rollback(rollbackResult) =>
              /\ RolledBack(rollbackResult)
              /\ replica'.persisted_snapshot_start =
                     rollbackResult.snapStartSeqno
              /\ replica'.persisted_snapshot_end =
                     rollbackResult.snapEndSeqno]_vars

\* C25 as stated: the persisted snapshot range becomes [S, S]
C25_RollbackResetsTheRangeToS ==
    [][\A rollbackResult \in RollbackResults :
          Rollback(rollbackResult) =>
              /\ RolledBack(rollbackResult)
              /\ replica'.persisted_snapshot_start =
                     rollbackResult.highSeqno
              /\ replica'.persisted_snapshot_end =
                     rollbackResult.highSeqno]_vars

\* a replica that received an initial disk snapshot up to seqno 4 on the
\* branch (U2, 3) was rolled back to seqno 2
C25_Witness ==
    /\ replica.last = "rollback"
    /\ replica.lastBySeqno = 2
    /\ replica.rollbackItemCount = 2
    /\ replica.failovers = <<Entry("U1", 0)>>
    /\ replica.persisted_snapshot_start = 2
    /\ replica.persisted_snapshot_end = 2


(***************************************************************************)
(* C26: getHighPriorityNotifications(idNum, kind) returns Success for      *)
(* every queued waiter of the kind whose id is <= idNum and Tmpfail for    *)
(* every other waiter of the kind that waited longer than the flush        *)
(* timeout in effect when the call reaches it, which is the timeout as the *)
(* last waiter returned before it adjusted it; the returned waiters leave  *)
(* the queue, all others stay queued in their order.                       *)
(***************************************************************************)
Spent(h, i) == h.clock - h.hpVBReqs[i].start

RECURSIVE TimeoutAt(_, _, _, _)
\* the flush timeout in effect when the call reaches waiter i
TimeoutAt(h, i, idNum, kind) ==
    IF i = 1
    THEN h.chkFlushTimeout
    ELSE LET e == h.hpVBReqs[i - 1]
             t == TimeoutAt(h, i - 1, idNum, kind)
         IN IF e.reqType = kind /\ (e.id <= idNum \/ Spent(h, i - 1) > t)
            THEN adjustCheckpointFlushTimeout(Spent(h, i - 1))
            ELSE t

\* what the call owes waiter i under the timeout
Outcome(h, i, idNum, kind, timeout) ==
    LET e == h.hpVBReqs[i]
    IN IF e.reqType # kind THEN "queued"
       ELSE IF e.id <= idNum THEN "SUCCESS"
       ELSE IF Spent(h, i) > timeout THEN "TMPFAIL"
       ELSE "queued"

\* the call took the queue of h to that of h2 and returned the outcomes
Notifies(h, h2, Owed(_)) ==
    LET returned == {i \in DOMAIN h.hpVBReqs : Owed(i) # "queued"}
        kept == {i \in DOMAIN h.hpVBReqs : Owed(i) = "queued"}
    IN /\ DOMAIN h2.toNotify = {h.hpVBReqs[i].cookie : i \in returned}
       /\ \A i \in returned : h2.toNotify[h.hpVBReqs[i].cookie] = Owed(i)
       /\ Len(h2.hpVBReqs) = Cardinality(kept)
       /\ \A i \in kept :
              \E n \in DOMAIN h2.hpVBReqs :
                  /\ h2.hpVBReqs[n] = h.hpVBReqs[i]
                  /\ n = Cardinality({j \in kept : j <= i})

C26_NotifiesReachedAndTimedOutWaiters ==
    [][\A idNum \in 0 .. MaxWaitId, kind \in HighPriorityVBNotify :
          GetHighPriorityNotifications(idNum, kind) =>
              Notifies(hp, hp',
                       LAMBDA i : Outcome(hp, i, idNum, kind,
                                          TimeoutAt(hp, i, idNum, kind)))]_vars

\* C26 as stated, the timeout being the one in effect when the call is made
C26_TimeoutAsOfTheCall ==
    [][\A idNum \in 0 .. MaxWaitId, kind \in HighPriorityVBNotify :
          GetHighPriorityNotifications(idNum, kind) =>
              Notifies(hp, hp',
                       LAMBDA i : Outcome(hp, i, idNum, kind,
                                          hp.chkFlushTimeout))]_vars

\* one call returned a Success and a Tmpfail and left a waiter of the other
\* kind queued
C26_Witness ==
    /\ hp.last = "get"
    /\ \E c, d \in DOMAIN hp.toNotify :
           hp.toNotify[c] = "SUCCESS" /\ hp.toNotify[d] = "TMPFAIL"
    /\ Len(hp.hpVBReqs) = 1


(***************************************************************************)
(* C27: once the partition is told to disconnect or shut down, every       *)
(* high-priority waiter then queued and every sync write then in flight is *)
(* completed with Tmpfail, and afterwards no waiter remains queued.        *)
(***************************************************************************)
FailedWithTmpfail(c) ==
    \/ <<c, "TMPFAIL">> \in hp.ioComplete
    \/ \E i \in DOMAIN notified :
           notified[i] = [cookie |-> c, status |-> "TMPFAIL"]

JsonPlaces(json) ==
    {p \in (1..Len(json.scopes)) \X (1..MaxJsonCollections) :
        p[2] <= Len(json.scopes[p[1]].collections)}
JsonAt(json, p) == json.scopes[p[1]].collections[p[2]]
ScopesHoldTheDefault(json) ==
    /\ json.scopes # <<>>
    /\ \E i \in 1..Len(json.scopes) :
           makeScopeID(json.scopes[i].uid) = DefaultScopeID
ScopeUidsUnique(json) ==
    \A i, k \in 1..Len(json.scopes) :
        i # k => makeScopeID(json.scopes[i].uid)
                    # makeScopeID(json.scopes[k].uid)
CollectionUidsUnique(json) ==
    \A p, q \in JsonPlaces(json) :
        p # q => makeCollectionID(JsonAt(json, p).uid)
                    # makeCollectionID(JsonAt(json, q).uid)
CollectionNamesUniqueInScope(json) ==
    \A p, q \in JsonPlaces(json) :
        p # q /\ p[1] = q[1] => JsonAt(json, p).name # JsonAt(json, q).name
DefaultCollectionInDefaultScope(json) ==
    \A p \in JsonPlaces(json) :
        makeCollectionID(JsonAt(json, p).uid) = DefaultCollectionID
            => makeScopeID(json.scopes[p[1]].uid) = DefaultScopeID
MaxTtlsFit(json) ==
    \A p \in JsonPlaces(json) :
        JsonAt(json, p).max_ttl # <<>>
            => /\ JsonAt(json, p).max_ttl[1][1] = 0
               /\ JsonAt(json, p).max_ttl[1][2] = 0
ManifestRules(json) ==
    /\ ScopesHoldTheDefault(json)
    /\ ScopeUidsUnique(json)
    /\ CollectionUidsUnique(json)
    /\ CollectionNamesUniqueInScope(json)
    /\ DefaultCollectionInDefaultScope(json)
    /\ MaxTtlsFit(json)
\* C30: a constructed manifest comes from a document that keeps the six
\* rules, and a document that breaks one throws and leaves no manifest
C30_ParsedManifestsKeepTheRules ==
    manifest.phase = "parsed" =>
        /\ manifest.parsed.threw = "" => ManifestRules(manifest.json)
        /\ ~ManifestRules(manifest.json) =>
               /\ manifest.parsed.threw \in {"invalid_argument", "out_of_range"}
               /\ "manifest" \notin DOMAIN manifest.parsed
\* two scopes with a collection each, one of them with a max_ttl of 2^32-1,
\* are parsed into a manifest
C30_Witness ==
    /\ manifest.phase = "parsed"
    /\ manifest.parsed.threw = ""
    /\ Cardinality(manifest.parsed.manifest.scopes) = 2
    /\ Cardinality(manifest.parsed.manifest.collections) = 2
    /\ manifest.parsed.manifest.defaultCollectionExists
    /\ \E p \in JsonPlaces(manifest.json) :
           JsonAt(manifest.json, p).max_ttl = <<UINT32_MAX>>
\* a document that puts the default collection into another scope is refused
C30_WitnessRefused ==
    /\ manifest.phase = "parsed"
    /\ manifest.parsed.threw = "invalid_argument"
    /\ ~DefaultCollectionInDefaultScope(manifest.json)

ReadOps == {"get", "getLocked", "getMeta"}
\* C29, the manifest's half: the seqnos up to a drop are logically deleted,
\* a document written after the re-creation is not
C29_DroppedSeqnosAreLogicallyDeleted ==
    \A key \in DocKeys :
        /\ \A seqno \in 1..manifest.dropped[key.cid] :
               /\ isLogicallyDeleted(
                      CachingReadHandle(manifest.active, key), seqno)
               /\ isLogicallyDeleted(
                      CachingReadHandle(manifest.replica, key), seqno)
        /\ /\ manifest.ht[key].there
           /\ manifest.ht[key].seqno > manifest.dropped[key.cid]
           => ~isLogicallyDeleted(CachingReadHandle(manifest.active, key),
                                  manifest.ht[key].seqno)
\* C29, the reads' half: a read of a logically deleted document returns
\* KEY_ENOENT
C29_ReadsOfLogicallyDeletedKeys ==
    manifest.last.op \in ReadOps /\ manifest.last.deleted
        => manifest.last.ret = "KEY_ENOENT"
\* C29 as stated: the seqnos up to a drop are logically deleted and every
\* read of a logically deleted document returns KEY_ENOENT
C29_LogicalDeletionAndReads ==
    C29_DroppedSeqnosAreLogicallyDeleted /\ C29_ReadsOfLogicallyDeletedKeys
\* what holds of the reads: KEY_ENOENT while the collection of the key
\* exists, and from getMetaData always
C29_ReadsUnderALiveCollection ==
    /\ manifest.last.op \in ReadOps
    /\ manifest.last.deleted
    /\ \/ CachingReadHandle(manifest.active, manifest.last.key).valid
       \/ manifest.last.op = "getMeta"
    => manifest.last.ret = "KEY_ENOENT"
\* a document written before the drop is read after the re-creation
C29_Witness ==
    /\ manifest.last.op = "get"
    /\ manifest.last.deleted
    /\ manifest.last.ret = "KEY_ENOENT"
    /\ manifest.dropped[manifest.last.key.cid]
           >= manifest.ht[manifest.last.key].seqno
    /\ CachingReadHandle(manifest.active, manifest.last.key).valid
\* a document of a dropped collection is read
C29_WitnessDropped ==
    /\ manifest.last.op = "get"
    /\ manifest.last.deleted
    /\ manifest.last.ret = "invalid_argument"
    /\ manifest.dropped[manifest.last.key.cid]
           >= manifest.ht[manifest.last.key].seqno
\* the write under the lock was VBucket::processSet
DidProcessSet == hbl.last.op = "processSet"
\* the value the write met was a committed deleted value, not expired
MetDeleted ==
    /\ hbl.before.there /\ hbl.before.deleted
    /\ hbl.before.committed = "CommittedViaMutation"
\* the write went through: the value was stored and an item queued
WriteSucceeded == hbl.status \in {"WasClean", "WasDirty"}

\* C31 as stated: a write with CAS=0 onto a stored value in the deleted
\* state succeeds only if the incoming write is itself a delete
C31_Cas0OntoDeletedNeedsDelete ==
    (DidProcessSet /\ MetDeleted /\ hbl.last.cas = 0 /\ WriteSucceeded)
        => hbl.last.deleted

\* C31: a write with a CAS other than 0 and without metadata onto a stored
\* value in the deleted state succeeds only if the incoming write is itself
\* a delete, while a write with CAS=0 onto a deleted value succeeds whether
\* or not it is a delete, given memory and no allowExisting refusal
C31_CasOntoDeletedNeedsDelete ==
    (DidProcessSet /\ MetDeleted) =>
        /\ (hbl.last.cas # 0 /\ ~hbl.last.hasMetaData /\ WriteSucceeded)
               => hbl.last.deleted
        /\ (hbl.last.cas = 0 /\ hbl.last.env.hasMemory)
               => (WriteSucceeded /\ hbl.queued /\ hbl.ret = "SUCCESS"
                   /\ hbl.v.deleted = hbl.last.deleted)

\* a set with a matching CAS onto a deleted value was refused as not found
C31_Witness ==
    /\ DidProcessSet /\ MetDeleted
    /\ hbl.last.cas = hbl.before.cas /\ ~hbl.last.hasMetaData
    /\ ~hbl.last.deleted /\ hbl.status = "NotFound"
    /\ hbl.ret = "KEY_ENOENT" /\ hbl.v = hbl.before

\* a plain set with CAS=0 re-created a deleted value
C31_WitnessCas0 ==
    /\ DidProcessSet /\ MetDeleted /\ hbl.last.cas = 0
    /\ ~hbl.last.deleted /\ WriteSucceeded /\ ~hbl.v.deleted
\* the write was admitted and may overwrite: memory at hand, not an add
Admitted == hbl.last.env.hasMemory /\ hbl.last.allowExisting
\* the write took the value it met for expired (VBucket::processSet, MB-3252)
MetExpired ==
    /\ hbl.before.there /\ isExpired_At(hbl.before, RealTime)
    /\ ~hbl.last.hasMetaData /\ ~hbl.last.deleted
\* the write was sent to fetch the value from disk before anything else
SentToBgFetch == hbl.status = "NeedBgFetch"
\* the CAS of the write is given and is not the CAS of the value it met
CasMismatch == hbl.last.cas # 0 /\ hbl.last.cas # hbl.before.cas
\* the value met is one a non-delete CAS write reports as absent
MetAbsentForCas ==
    \/ hbl.before.temp = "NonExistent"
    \/ (hbl.before.temp = "Deleted" \/ hbl.before.deleted)
           /\ ~hbl.last.deleted
\* the outcome of the CAS policy for the value met and the CAS given
CasPolicy ==
    /\ (hbl.before.there /\ hbl.before.locked
            /\ hbl.last.cas # hbl.before.cas)
           => (hbl.status = "IsLocked" /\ hbl.ret = "LOCKED"
               /\ hbl.v = hbl.before)
    /\ (hbl.before.there /\ hbl.before.locked
            /\ hbl.last.cas = hbl.before.cas)
           => (WriteSucceeded /\ ~hbl.v.locked /\ hbl.queued)
    /\ (hbl.before.there /\ ~hbl.before.locked /\ CasMismatch)
           => IF MetAbsentForCas
              THEN hbl.status = "NotFound" /\ hbl.ret = "KEY_ENOENT"
              ELSE hbl.status = "InvalidCas" /\ hbl.ret = "KEY_EEXISTS"
    /\ (~hbl.before.there /\ hbl.last.cas # 0)
           => (hbl.status = "NotFound" /\ hbl.ret = "KEY_ENOENT")
    /\ ~WriteSucceeded => ~hbl.queued

\* C32 as stated: for a write that is admitted, the outcome follows the CAS
\* policy whatever the value met: locked and mismatching fails as locked
\* and stays locked and unchanged, locked and matching is unlocked and
\* written, unlocked and mismatching fails KeyEexists or KeyEnoent, no value
\* and a CAS fails KeyEnoent, and a failure queues nothing
C32_OutcomeFollowsCasPolicy ==
    (DidProcessSet /\ Admitted) => CasPolicy

\* C32: the outcome follows the CAS policy for an admitted write that does
\* not take the value for expired and is not sent to a background fetch; a
\* write that takes the value for expired unlocks it, and with a CAS fails
\* KeyEnoent; a failed write queues nothing and leaves the value as it was,
\* but for that unlock
C32_CasPolicyAfterExpiryAndFetch ==
    DidProcessSet =>
        /\ (Admitted /\ ~MetExpired /\ ~SentToBgFetch) => CasPolicy
        /\ (hbl.last.env.hasMemory /\ MetExpired /\ ~SentToBgFetch) =>
               /\ ~hbl.v.locked
               /\ hbl.last.cas # 0 =>
                      (hbl.status = "NotFound" /\ hbl.ret = "KEY_ENOENT")
        /\ ~WriteSucceeded =>
               /\ ~hbl.queued
               /\ hbl.v = IF MetExpired /\ hbl.last.env.hasMemory
                             /\ ~SentToBgFetch
                          THEN unlock(hbl.before) ELSE hbl.before

\* a locked value met a write with another CAS: refused as locked, the
\* value still locked
C32_Witness ==
    /\ DidProcessSet /\ Admitted /\ ~MetExpired
    /\ hbl.before.locked /\ CasMismatch
    /\ hbl.status = "IsLocked" /\ hbl.v.locked

\* a locked value that has expired met a set with another CAS: the value
\* is unlocked and the set fails KeyEnoent, not as locked
C32_WitnessExpiredLocked ==
    /\ DidProcessSet /\ Admitted /\ MetExpired
    /\ hbl.before.locked /\ CasMismatch
    /\ hbl.status = "NotFound" /\ ~hbl.v.locked

\* a CAS write with no stored value under full eviction is sent to a
\* background fetch
C32_WitnessBgFetch ==
    /\ DidProcessSet /\ Admitted /\ ~hbl.before.there /\ hbl.last.cas # 0
    /\ hbl.status = "NeedBgFetch" /\ hbl.ret = "EWOULDBLOCK"
\* the call under the lock was a delete of a value that is there
DidDelete ==
    hbl.last.op \in {"deleteItem", "deleteWithMeta"} /\ hbl.before.there
\* the fields of a stored value a failed delete is to leave alone
KeptFields(v) ==
    <<v.there, v.cas, v.flags, v.exptime, v.revSeqno, v.locked>>

\* C40 for SyncWriteInProgress: a deleteItem or deleteWithMeta that fails
\* with SyncWriteInProgress leaves the CAS, flags, expiry, revSeqno and lock
\* state of the stored value at the key as they were
C40_SyncWriteInProgressLeavesTheValue ==
    (DidDelete /\ hbl.ret = "SYNC_WRITE_IN_PROGRESS")
        => KeptFields(hbl.v) = KeptFields(hbl.before)

\* C40 for the refusals made before the value is touched: a delete refused
\* as locked, for its CAS or by the conflict resolver leaves the stored
\* value exactly as it was on an active vBucket
C40_RefusedDeleteLeavesTheValue ==
    (DidDelete /\ hbl.last.vbState = "active"
         /\ hbl.ret \in {"LOCKED_TMPFAIL", "KEY_EEXISTS"})
        => (hbl.v = hbl.before /\ ~hbl.queued)

\* a deleteWithMeta met a prepare in flight, failed with SyncWriteInProgress
\* and left its CAS, flags and revSeqno on the prepare
C40_Witness ==
    /\ hbl.last.op = "deleteWithMeta"
    /\ hbl.before.committed = "Pending"
    /\ hbl.ret = "SYNC_WRITE_IN_PROGRESS"
    /\ hbl.v.committed = "Pending"
    /\ hbl.v.cas = hbl.last.itemMeta.cas
    /\ hbl.v.revSeqno = hbl.last.itemMeta.revSeqno
    /\ hbl.v.cas # hbl.before.cas

\* a deleteItem met a prepare in flight, failed with SyncWriteInProgress and
\* left the prepare with the next revSeqno
C40_WitnessDeleteItem ==
    /\ hbl.last.op = "deleteItem"
    /\ hbl.before.committed = "Pending"
    /\ hbl.ret = "SYNC_WRITE_IN_PROGRESS"
    /\ hbl.v.revSeqno = hbl.before.revSeqno + 1

\* a delete refused as locked left the value locked and as it was
C40_WitnessLocked ==
    /\ DidDelete /\ hbl.ret = "LOCKED_TMPFAIL" /\ hbl.v.locked
    /\ hbl.v = hbl.before
\* the operations that release the bucket lock before they notify
UnlockingOps ==
    {"setWithMeta", "deleteWithMeta", "addBackfillItem", "deleteExpiredItem"}

\* C33 as stated: no observer callback (new-seqno notification or
\* sync-write-complete notification) is invoked while the calling thread
\* still holds a hash-table bucket lock, in every public operation
C33_NoCallbackUnderTheBucketLock ==
    hbl.callback.cb # "none" => ~hbl.callback.holdsLock

\* C33 for the operations that unlock first: setWithMeta, deleteWithMeta,
\* addBackfillItem and deleteExpiredItem invoke the new-seqno notification
\* with the bucket lock released
C33_UnlockingOpsNotifyUnlocked ==
    hbl.callback.op \in UnlockingOps => ~hbl.callback.holdsLock

\* commit told the client that its sync write is complete while the thread
\* held the bucket lock and another thread waited for it
C33_Witness ==
    /\ hbl.callback.op = "commit"
    /\ hbl.callback.cb = "notifyClientOfSyncWriteComplete"
    /\ hbl.callback.holdsLock
    /\ \E t \in Threads :
           /\ hbl.op[t] # "idle" /\ hbl.holder # t
           /\ NextStep(t) = "findForWrite"

\* deleteWithMeta notified the new seqno with the bucket lock released
C33_WitnessUnlocked ==
    /\ hbl.callback.op = "deleteWithMeta"
    /\ hbl.callback.cb = "notifyNewSeqno"
    /\ ~hbl.callback.holdsLock
\* the tracked prepares of the level MajorityAndPersistOnMaster
TrackedPersistOnMaster ==
    {i \in 1..Len(tracked) :
        tracked[i].level = "MajorityAndPersistOnMaster"}

\* C34 as stated, the passive half: on the passive monitor the high
\* prepared seqno has reached every tracked MajorityAndPersistOnMaster
\* prepare as soon as it is added, with no local persistence
C34_PassiveHPSReachesPersistOnMaster ==
    state = "replica" =>
        \A i \in TrackedPersistOnMaster : hps >= tracked[i].seqno

\* C34: a MajorityAndPersistOnMaster prepare is a persistence fence for the
\* high prepared seqno only on the active monitor: on the passive monitor
\* the high prepared seqno is below such a prepare only while an earlier
\* PersistToMajority prepare holds it back, and on the active monitor it
\* does not reach the prepare before the persistence seqno has
C34_PersistOnMasterFencesOnlyTheActive ==
    /\ state = "replica" =>
           \A i \in TrackedPersistOnMaster :
               hps < tracked[i].seqno =>
                   \E j \in 1..Len(tracked) :
                       /\ tracked[j].level = "PersistToMajority"
                       /\ hps < tracked[j].seqno
                       /\ tracked[j].seqno < tracked[i].seqno
    /\ state = "active" =>
           \A i \in TrackedPersistOnMaster :
               hps >= tracked[i].seqno
                   => persistenceSeqno >= tracked[i].seqno

\* a replica has moved its high prepared seqno to a
\* MajorityAndPersistOnMaster prepare it has not persisted
C34_Witness ==
    /\ state = "replica"
    /\ \E i \in TrackedPersistOnMaster :
           hps >= tracked[i].seqno /\ persistenceSeqno < tracked[i].seqno

\* an active holds its high prepared seqno below a
\* MajorityAndPersistOnMaster prepare it has not persisted, and moves it
\* there once it has
C34_WitnessActive ==
    /\ state = "active"
    /\ \E i \in TrackedPersistOnMaster :
           /\ hps >= tracked[i].seqno
           /\ persistenceSeqno >= tracked[i].seqno

\* an active with an unpersisted MajorityAndPersistOnMaster prepare above
\* its high prepared seqno
C34_WitnessActiveHeld ==
    /\ state = "active"
    /\ \E i \in TrackedPersistOnMaster :
           hps < tracked[i].seqno /\ persistenceSeqno < tracked[i].seqno

\* a replica whose MajorityAndPersistOnMaster prepare is held back by an
\* earlier PersistToMajority prepare
C34_WitnessPassiveHeld ==
    /\ state = "replica"
    /\ \E i \in TrackedPersistOnMaster : hps < tracked[i].seqno
\* every abort item names the prepare that was removed for it
AbortItemsNameTheirPrepare ==
    \A i \in 1..Len(ckpt) :
        ckpt[i].op = "abort" => ckpt[i].prepareSeqno = ckpt[i].svSeqno

\* a commit or abort that names another prepare than the Pending value at
\* the key leaves the hash table, the checkpoint and the monitor alone
OnlyTheNamedPrepare ==
    \A key \in Keys, seqno \in 1..MaxSeqno :
        (/\ PendingAt(key)
         /\ ht[key].p.bySeqno # seqno
         /\ Commit(key, seqno) \/ Abort(key, seqno))
            => UNCHANGED <<ht, ckpt, tracked, hps, pos, notified>>

\* C35: commit(key, prepareSeqno) and abort(key, prepareSeqno) act only on
\* the Pending value whose bySeqno equals prepareSeqno: a Pending value of
\* another prepare at the key is neither committed nor removed, and an
\* abort item never carries a prepareSeqno other than the seqno of the
\* prepare it removed
C35_CommitAbortOnlyTheNamedPrepare ==
    []AbortItemsNameTheirPrepare /\ [][OnlyTheNamedPrepare]_vars

\* C35, the abort item: as a state predicate
C35_AbortItemNamesItsPrepare == AbortItemsNameTheirPrepare

\* an abort that named an earlier prepare removed the later one: the abort
\* item carries the seqno of a prepare that was committed before
C35_Witness ==
    \E i, j \in 1..Len(ckpt) :
        /\ ckpt[i].op = "abort"
        /\ ckpt[i].prepareSeqno < ckpt[i].svSeqno
        /\ ckpt[j].op = "commit" /\ ckpt[j].key = ckpt[i].key
        /\ ckpt[j].svSeqno = ckpt[i].prepareSeqno
\* the durability monitor tracks the prepare of the Pending value at key
TracksPendingAt(key) ==
    \E i \in 1..Len(tracked) :
        tracked[i].key = key /\ tracked[i].seqno = ht[key].p.bySeqno

\* C36: on an active vBucket, after any sequence of durable writes, acks,
\* timeouts and set-state calls, every Pending stored value in the hash
\* table has a prepare with the same key and seqno tracked by the
\* durability monitor
C36_PendingValuesAreTracked ==
    state = "active" =>
        \A key \in DOMAIN ht : PendingAt(key) => TracksPendingAt(key)

\* an active vBucket holds a Pending value no monitor tracks, after a
\* set-state call that kept it active
C36_Witness ==
    /\ state = "active"
    /\ tracked = <<>>
    /\ \E key \in DOMAIN ht : PendingAt(key)
    /\ \A key \in DOMAIN ht : ht[key].c = NoSV

\* an active vBucket with a Pending value, tracked, and a prepare that
\* timed out and was aborted
C36_WitnessTracked ==
    /\ state = "active"
    /\ \E key \in DOMAIN ht : PendingAt(key) /\ TracksPendingAt(key)
    /\ \E i \in 1..Len(ckpt) : ckpt[i].op = "abort"
\* the durable write with this cookie was accepted: its prepare is queued
WriteAccepted(cookie) ==
    \E i \in 1..Len(ckpt) :
        ckpt[i].op = "prepare" /\ ckpt[i].bySeqno = cookie
\* the cookie was notified of the completion of its sync write
CookieNotified(cookie) ==
    \E i \in 1..Len(notified) : notified[i].cookie = cookie
\* the prepare of the cookie was committed or aborted
PrepareResolved(cookie) ==
    \E i \in 1..Len(ckpt) :
        ckpt[i].op \in {"commit", "abort"} /\ ckpt[i].svSeqno = cookie

\* C37: every durable write accepted with Ewouldblock and a finite timeout
\* is eventually committed or aborted and its cookie eventually notified,
\* while the clock advances and the timeout task keeps being run, also when
\* the vBucket changes state while the prepare is in flight
C37_AcceptedWriteIsEventuallyResolved ==
    \A cookie \in 1..MaxSeqno :
        WriteAccepted(cookie) ~> (PrepareResolved(cookie) /\ CookieNotified(cookie))

\* a durable write is in flight on an active vBucket whose monitor tracks
\* nothing, past its deadline
C37_Witness ==
    /\ state = "active"
    /\ tracked = <<>>
    /\ now = MaxTime
    /\ \E cookie \in 1..MaxSeqno :
           WriteAccepted(cookie) /\ ~PrepareResolved(cookie) /\ ~CookieNotified(cookie)

\* a durable write timed out, was aborted and its cookie notified
C37_WitnessSteady ==
    \E cookie \in 1..MaxSeqno :
        WriteAccepted(cookie) /\ PrepareResolved(cookie) /\ CookieNotified(cookie)
\* the vBucket state, the replication topology and the durability monitor
\* are as they were
StateAndMonitorUnchanged == UNCHANGED <<state, topology, tracked, hps, pos>>

\* C39 as stated: a setState that is rejected, for meta given with a
\* non-active target state or for an invalid topology, a chain with a
\* duplicate node included, leaves the vBucket state, the stored
\* replication topology and the durability monitor unchanged
C39_RejectedSetStateChangesNothing ==
    [][\A to \in {"active", "replica"} :
          (SetStateMeta(to, request) /\ result' = "invalid_argument")
              => StateAndMonitorUnchanged]_vars

\* C39 for the rejections made by the validation: a setState rejected for
\* meta given with a non-active target state, or for a topology that
\* validateReplicationTopology refuses, changes nothing
C39_RejectedByValidationChangesNothing ==
    [][\A to \in {"active", "replica"} :
          (/\ SetStateMeta(to, request)
           /\ to # "active" \/ validateReplicationTopology(request) # "")
              => (result' = "invalid_argument" /\ StateAndMonitorUnchanged)
      ]_vars

\* C39 with prepares in flight: a setState rejected for meta given with a
\* non-active target state leaves the state, the topology and the tracked
\* prepares as they were
C39_RejectedMetaKeepsThePrepares ==
    [][\A to \in VBStates, meta \in StateMetas :
          (SetState(to, meta) /\ result' = "invalid_argument")
              => StateAndMonitorUnchanged]_vars

\* a replica was told to become active under a topology whose chain names a
\* node twice: the call was rejected, yet the vBucket is active now
C39_Witness ==
    /\ lastCall.op = "setState" /\ lastCall.key = "replica"
    /\ DuplicateNode(request)
    /\ result = "invalid_argument"
    /\ state = "active"

\* a topology with a null active node was rejected and the replica is
\* still a replica
C39_WitnessRejected ==
    /\ lastCall.op = "setState" /\ lastCall.key = "replica"
    /\ lastCall.node = "active"
    /\ validateReplicationTopology(request) # ""
    /\ result = "invalid_argument"
    /\ state = "replica"

\* a cookie that addPendingOp accepted and fireAllOps has notified
FiredCookies == {c \in PendingCookies : pendingOps.fired[c] # <<>>}
\* the code a vBucket that left pending for one of these states answers with
CodeOf(st) == IF st = "active" THEN "SUCCESS" ELSE "NOT_MY_VBUCKET"
\* the notification tells of a state the vBucket entered after it accepted
\* the cookie
ToldOfAStateEntered(n) ==
    \E st \in n.seen : n.code = CodeOf(st)

\* C38: every cookie that addPendingOp accepted is notified exactly once
\* after the vBucket leaves the pending state, with SUCCESS if it became
\* active and NOT_MY_VBUCKET if it became replica or dead, under any
\* interleaving of addPendingOp, setState and fireAllOps
C38_AcceptedCookieIsToldTheNewState ==
    \A c \in PendingCookies :
        /\ Len(pendingOps.fired[c]) <= 1
        /\ pendingOps.fired[c] # <<>> =>
               /\ pendingOps.accepted[c] = "true"
               /\ ToldOfAStateEntered(pendingOps.fired[c][1])

\* C38, the count alone: only an accepted cookie is notified, and at most
\* once
C38_NotifiedAtMostOnce ==
    \A c \in PendingCookies :
        /\ Len(pendingOps.fired[c]) <= 1
        /\ pendingOps.fired[c] # <<>> => pendingOps.accepted[c] = "true"

\* a cookie that is parked: accepted and not yet notified
Parked(c) == pendingOps.accepted[c] = "true" /\ pendingOps.fired[c] = <<>>

\* C38, no cookie left forever: once the vBucket stays out of pending and
\* fireAllOps keeps being called, every accepted cookie has been notified
C38_NoCookieParkedForever ==
    <>[](state # "pending") => <>[](\A c \in PendingCookies : ~Parked(c))

\* C38: a cookie accepted while pending is notified SUCCESS while the
\* vBucket is still pending and has not been active since
C38_Witness ==
    \E c \in PendingCookies :
        /\ pendingOps.fired[c] # <<>>
        /\ pendingOps.fired[c][1].code = "SUCCESS"
        /\ pendingOps.fired[c][1].seen = {}
        /\ pendingOps.fired[c][1].state = "pending"

\* C38: a cookie accepted while pending is notified SUCCESS after the
\* vBucket became active
C38_WitnessTold ==
    \E c \in PendingCookies :
        /\ pendingOps.fired[c] # <<>>
        /\ pendingOps.fired[c][1].code = "SUCCESS"
        /\ pendingOps.fired[c][1].seen = {"active"}
        /\ pendingOps.fired[c][1].state = "active"

====
